---- MODULE Spec2Model ----
(***************************************************************************)
(* Model of the distrs crate (ankane/dist-rust): Normal and Student's t    *)
(* pdf / cdf / ppf, the Winitzki erf approximations and the Lanczos gamma. *)
(*                                                                         *)
(* The crate computes on f64.  The model carries IEEE-754 binary64 values  *)
(* exactly: a value is a record [k, s, m, e] where k is "nan", "inf" or    *)
(* "fin", s the sign bit, and for "fin" the magnitude is m * 2^e with m a  *)
(* natural number below 2^53 held as four little-endian 14-bit limbs      *)
(* (TLC integers are 32 bits wide).       +, -, *, / and sqrt round to    *)
(* nearest-even as the hardware does, with gradual underflow and overflow  *)
(* to infinity.                                                            *)
(***************************************************************************)
EXTENDS Integers, Sequences, FiniteSets, TLC

(***************************************************************************)
(* Natural numbers below 2^112: eight little-endian limbs in 0..2^14-1.    *)
(* A mantissa is the four low limbs.                                       *)
(***************************************************************************)
Base == 2^14

\* the last of a sequence of intermediate values, which are computed in their
\* order in the sequence
Last(s) == s[Len(s)]

Wide(m) == <<m[1], m[2], m[3], m[4], 0, 0, 0, 0>>

Low4(v) == <<v[1], v[2], v[3], v[4]>>

ZeroM == <<0, 0, 0, 0>>

BZero == Wide(ZeroM)

BIsZero(a) == \A i \in 1..8 : a[i] = 0

\* the number with the column values v[1], ..., v[8] (integers, possibly
\* negative or beyond a limb), carries moved up
Carry(v) ==
  LET t1 == v[1]
      t2 == v[2] + t1 \div Base
      t3 == v[3] + t2 \div Base
      t4 == v[4] + t3 \div Base
      t5 == v[5] + t4 \div Base
      t6 == v[6] + t5 \div Base
      t7 == v[7] + t6 \div Base
      t8 == v[8] + t7 \div Base
  IN  <<t1 % Base, t2 % Base, t3 % Base, t4 % Base,
        t5 % Base, t6 % Base, t7 % Base, t8 % Base>>

BFromInt(n) == <<n % Base, (n \div Base) % Base, n \div (Base * Base), 0, 0, 0, 0, 0>>

\* the value of a number known to fit a TLC integer (at most two limbs)
BToInt(a) == a[1] + Base * a[2]

Min(a, b) == IF a < b THEN a ELSE b

Max(a, b) == IF a > b THEN a ELSE b

\* -1, 0, 1 as a < b, a = b, a > b
BCmp(a, b) ==
  IF \A i \in 1..8 : a[i] = b[i] THEN 0
  ELSE LET i == CHOOSE i \in 1..8 : a[i] # b[i] /\ \A j \in (i + 1)..8 : a[j] = b[j]
       IN  IF a[i] < b[i] THEN -1 ELSE 1

BAdd(a, b) == Carry([i \in 1..8 |-> a[i] + b[i]])

\* a - b for a >= b
BSub(a, b) == Carry([i \in 1..8 |-> a[i] - b[i]])

\* a * k for 0 <= k < Base
BMulS(a, k) == Carry([i \in 1..8 |-> a[i] * k])

\* the product of two mantissas
BMul(a, b) ==
  Carry(<<a[1] * b[1],
          a[1] * b[2] + a[2] * b[1],
          a[1] * b[3] + a[2] * b[2] + a[3] * b[1],
          a[1] * b[4] + a[2] * b[3] + a[3] * b[2] + a[4] * b[1],
          a[2] * b[4] + a[3] * b[3] + a[4] * b[2],
          a[3] * b[4] + a[4] * b[3],
          a[4] * b[4],
          0>>)

\* a * 2^n (the product below 2^112)
BShl(a, n) ==
  LET q == n \div 14
      r == n % 14
  IN  [i \in 1..8 |->
         (IF i - q >= 1 THEN (a[i - q] * 2^r) % Base ELSE 0)
         + (IF i - q >= 2 THEN a[i - q - 1] \div 2^(14 - r) ELSE 0)]

\* floor(a / 2^n)
BShr(a, n) ==
  LET q == n \div 14
      r == n % 14
  IN  [i \in 1..8 |->
         (IF i + q <= 8 THEN a[i + q] \div 2^r ELSE 0)
         + (IF i + q <= 7 THEN (a[i + q + 1] % 2^r) * 2^(14 - r) ELSE 0)]

\* a mod 2^n /= 0
BLowBits(a, n) ==
  \E i \in 1..8 : \/ i <= n \div 14 /\ a[i] # 0
                  \/ i = n \div 14 + 1 /\ a[i] % 2^(n % 14) # 0

\* the number of bits of a limb k /= 0
BitLenS(k) == CHOOSE n \in 1..14 : 2^(n - 1) <= k /\ k < 2^n

BitLen(a) ==
  IF BIsZero(a) THEN 0
  ELSE LET t == CHOOSE i \in 1..8 : a[i] # 0 /\ \A j \in (i + 1)..8 : a[j] = 0
       IN  14 * (t - 1) + BitLenS(a[t])

BOdd(a) == a[1] % 2 = 1

\* q, or q - 1 where d * q is above r
Lower(q, r, d) == IF BCmp(BMulS(d, q), r) > 0 THEN q - 1 ELSE q

\* one digit of a long division: floor(r / d) for r < d * Base and d of
\* exactly 56 bits; the estimate from the top limbs is at most 2 high
BDigit(r, d) == Lower(Lower(Min((r[5] * Base + r[4]) \div d[4], Base - 1), r, d), r, d)

\* Every operator below that is more than a few steps long is applied
\* through the evaluator Do, defined after the last of them: F(a, b) is
\* Do("F", <<a, b>>), which is F_def(a, b), the arguments evaluated first.
RECURSIVE Do(_, _)

\* one step of a long division: the running remainder r takes the next limb
\* x of the dividend; <<quotient digit, new remainder>>
BDivStep(r, x, d) == Do("BDivStep", <<r, x, d>>)

DivRest(r1, d, q) == <<q, BSub(r1, BMulS(d, q))>>

BDivStep_def(r, x, d) ==
  DivRest(<<x, r[1], r[2], r[3], r[4], 0, 0, 0>>, d,
          BDigit(<<x, r[1], r[2], r[3], r[4], 0, 0, 0>>, d))

\* <<floor(a / d), a mod d>> for d of exactly 56 bits and a < 2 d 2^56: the
\* quotient digits from the top one down
BDivMod(a, d) == Do("BDivMod", <<a, d>>)

\* the four low digits, after the top digit q5 left the remainder r5
DivDigits(a, d, q5, r5) ==
  LET s4 == BDivStep(r5, a[4], d)
      s3 == BDivStep(s4[2], a[3], d)
      s2 == BDivStep(s3[2], a[2], d)
      s1 == BDivStep(s2[2], a[1], d)
  IN  Last(<<s4, s3, s2, s1, <<<<s1[1], s2[1], s3[1], s4[1], q5, 0, 0, 0>>, s1[2]>>>>)

DivFrom(a, d, top) ==
  IF BCmp(top, d) >= 0 THEN DivDigits(a, d, 1, BSub(top, d)) ELSE DivDigits(a, d, 0, top)

BDivMod_def(a, d) == DivFrom(a, d, <<a[5], a[6], a[7], a[8], 0, 0, 0, 0>>)

\* one step of Newton's iteration from above for floor(sqrt(a))
BSqrtStep(a, x) == BShr(BAdd(x, BDivMod(a, x)[1]), 1)

\* x, or y where y is below x
SqrtNext(x, y) == IF BCmp(y, x) >= 0 THEN x ELSE y

\* Newton's iteration from x, above floor(sqrt(a)): it stays where it no
\* longer decreases
BSqrtIter(a, x) == SqrtNext(x, BSqrtStep(a, x))

\* floor(sqrt(a)) for 2^110 <= a < 2^112: eight steps at most
BSqrt(a) ==
  LET x1 == BSqrtIter(a, <<Base - 1, Base - 1, Base - 1, Base - 1, 0, 0, 0, 0>>)
      x2 == BSqrtIter(a, x1)
      x3 == BSqrtIter(a, x2)
      x4 == BSqrtIter(a, x3)
      x5 == BSqrtIter(a, x4)
      x6 == BSqrtIter(a, x5)
      x7 == BSqrtIter(a, x6)
      x8 == BSqrtIter(a, x7)
  IN  Last(<<x1, x2, x3, x4, x5, x6, x7, x8>>)

(***************************************************************************)
(* f64.  Finite values are canonical: m = 0 (zero, e = 0), or m of exactly *)
(* 53 bits with -1074 <= e <= 971 (normal), or m below 2^52 with           *)
(* e = -1074 (subnormal).                                                  *)
(***************************************************************************)
NaN == [k |-> "nan", s |-> 0, m |-> ZeroM, e |-> 0]

Inf(s) == [k |-> "inf", s |-> s, m |-> ZeroM, e |-> 0]

Zero(s) == [k |-> "fin", s |-> s, m |-> ZeroM, e |-> 0]

Fin(s, m, e) == [k |-> "fin", s |-> s, m |-> m, e |-> e]

INFINITY == Inf(0)

NEG_INFINITY == Inf(1)

IsNaN(a) == a.k = "nan"

IsInf(a) == a.k = "inf"

IsFinite(a) == a.k = "fin"

IsZero(a) == a.k = "fin" /\ a.m = ZeroM

Xor(s, t) == (s + t) % 2

\* m * 2^e after rounding: a carry out of 53 bits, overflow to infinity
PackAt(s, m, e) == IF e > 971 THEN Inf(s) ELSE Fin(s, Low4(m), e)

Pack(s, m, e) ==
  IF BIsZero(m) THEN Zero(s)
  ELSE IF BitLen(m) > 53 THEN PackAt(s, BShr(m, 1), e + 1)
  ELSE PackAt(s, m, e)

\* the f64 nearest to (-1)^s * (M * 2^E + a positive amount below 2^E if st),
\* ties to even; M /= 0, and M of at least 55 bits when st
RoundPack(s, M, E, st) == Do("RoundPack", <<s, M, E, st>>)

\* q * 2^e and a remainder: half is its bit at 2^(e-1) and low the rest of it
RoundUp(s, q, half, low, e) ==
  Pack(s, IF half /\ (low \/ BOdd(q)) THEN BAdd(q, BFromInt(1)) ELSE q, e)

\* M * 2^E rounded at the exponent e1
RoundAt(s, M, E, st, e1) ==
  IF e1 <= E THEN Pack(s, BShl(M, E - e1), e1)
  ELSE IF e1 - E > 112 THEN Zero(s)
  ELSE RoundUp(s, BShr(M, e1 - E), BOdd(BShr(M, e1 - E - 1)),
               st \/ BLowBits(M, e1 - E - 1), e1)

RoundPack_def(s, M, E, st) == RoundAt(s, M, E, st, Max(E + BitLen(M) - 53, -1074))

FNeg(a) == IF IsNaN(a) THEN NaN ELSE [a EXCEPT !.s = 1 - a.s]

FAbs(a) == [a EXCEPT !.s = 0]

\* the position just above the leading bit of a finite nonzero value
Top(a) == a.e + BitLen(Wide(a.m))

FMul(a, b) == Do("FMul", <<a, b>>)

FMul_def(a, b) ==
  IF IsNaN(a) \/ IsNaN(b) THEN NaN
  ELSE IF IsInf(a) \/ IsInf(b)
  THEN (IF IsZero(a) \/ IsZero(b) THEN NaN ELSE Inf(Xor(a.s, b.s)))
  ELSE IF IsZero(a) \/ IsZero(b) THEN Zero(Xor(a.s, b.s))
  ELSE LET M == BMul(a.m, b.m)
       IN  Last(<<M, RoundPack(Xor(a.s, b.s), M, a.e + b.e, FALSE)>>)

FDiv(a, b) == Do("FDiv", <<a, b>>)

\* the quotient and remainder qr of the aligned mantissas, rounded
DivRound(s, qr, e) == RoundPack(s, qr[1], e, ~BIsZero(qr[2]))

\* a / b for finite nonzero a, b whose mantissas take sa and sb more bits to
\* fill 56
DivAligned(a, b, sa, sb) ==
  DivRound(Xor(a.s, b.s),
           BDivMod(BShl(Wide(a.m), sa + 56), BShl(Wide(b.m), sb)),
           (a.e - sa - 56) - (b.e - sb))

FDiv_def(a, b) ==
  IF IsNaN(a) \/ IsNaN(b) THEN NaN
  ELSE IF IsInf(a) THEN (IF IsInf(b) THEN NaN ELSE Inf(Xor(a.s, b.s)))
  ELSE IF IsInf(b) THEN Zero(Xor(a.s, b.s))
  ELSE IF IsZero(b) THEN (IF IsZero(a) THEN NaN ELSE Inf(Xor(a.s, b.s)))
  ELSE IF IsZero(a) THEN Zero(Xor(a.s, b.s))
  ELSE DivAligned(a, b, 56 - BitLen(Wide(a.m)), 56 - BitLen(Wide(b.m)))

\* ma + mb or |ma - mb| at the exponent e, c the order of ma and mb
AddSigned(sa, sb, ma, mb, c, e) ==
  IF sa = sb THEN RoundPack(sa, BAdd(ma, mb), e, FALSE)
  ELSE IF c = 0 THEN Zero(0)
  ELSE IF c > 0 THEN RoundPack(sa, BSub(ma, mb), e, FALSE)
  ELSE RoundPack(sb, BSub(mb, ma), e, FALSE)

AddAligned(sa, sb, ma, mb, e) == AddSigned(sa, sb, ma, mb, BCmp(ma, mb), e)

\* a + b for finite nonzero a, b with Top(a) >= Top(b) (so a.e >= b.e)
AddOrdered(a, b) ==
  IF a.e - b.e > 56
  THEN \* b is far below the last place of a: it only decides the rounding
       RoundPack(a.s,
                 IF a.s = b.s THEN BShl(Wide(a.m), 3)
                 ELSE BSub(BShl(Wide(a.m), 3), BFromInt(1)),
                 a.e - 3, TRUE)
  ELSE AddAligned(a.s, b.s, BShl(Wide(a.m), a.e - b.e), Wide(b.m), b.e)

FAdd(a, b) == Do("FAdd", <<a, b>>)

FAdd_def(a, b) ==
  IF IsNaN(a) \/ IsNaN(b) THEN NaN
  ELSE IF IsInf(a) THEN (IF IsInf(b) /\ a.s # b.s THEN NaN ELSE a)
  ELSE IF IsInf(b) THEN b
  ELSE IF IsZero(a) THEN (IF IsZero(b) THEN Zero(IF a.s = 1 /\ b.s = 1 THEN 1 ELSE 0) ELSE b)
  ELSE IF IsZero(b) THEN a
  ELSE IF Top(a) >= Top(b) THEN AddOrdered(a, b) ELSE AddOrdered(b, a)

FSub(a, b) == FAdd(a, FNeg(b))

FSqrt(a) == Do("FSqrt", <<a>>)

\* r = floor(sqrt(M)), rounded
SqrtRound(M, r, e) == RoundPack(0, r, e, BCmp(BMul(r, r), M) # 0)

\* sqrt(m * 2^e) with k more bits in the mantissa, e - k even
SqrtShifted(m, e, k) == SqrtRound(BShl(m, k), BSqrt(BShl(m, k)), (e - k) \div 2)

SqrtFin(a, k0) == SqrtShifted(Wide(a.m), a.e, IF (a.e - k0) % 2 = 0 THEN k0 ELSE k0 + 1)

FSqrt_def(a) ==
  IF IsNaN(a) THEN NaN
  ELSE IF IsZero(a) THEN a
  ELSE IF a.s = 1 THEN NaN
  ELSE IF IsInf(a) THEN a
  ELSE SqrtFin(a, 111 - BitLen(Wide(a.m)))

\* the order of two mantissas: -1, 0, 1
MCmp(m, k) ==
  CASE m[4] # k[4] -> IF m[4] < k[4] THEN -1 ELSE 1
    [] m[3] # k[3] -> IF m[3] < k[3] THEN -1 ELSE 1
    [] m[2] # k[2] -> IF m[2] < k[2] THEN -1 ELSE 1
    [] m[1] # k[1] -> IF m[1] < k[1] THEN -1 ELSE 1
    [] OTHER       -> 0

\* the order of the magnitudes of two values that are not NaN: -1, 0, 1
MagCmp(a, b) ==
  IF IsInf(a) THEN (IF IsInf(b) THEN 0 ELSE 1)
  ELSE IF IsInf(b) THEN -1
  ELSE IF a.m = ZeroM THEN (IF b.m = ZeroM THEN 0 ELSE -1)
  ELSE IF b.m = ZeroM THEN 1
  ELSE IF a.e < b.e THEN -1
  ELSE IF a.e > b.e THEN 1
  ELSE MCmp(a.m, b.m)

\* the order of two values that are not NaN: -1, 0, 1
FCmp(a, b) ==
  IF a.m = ZeroM /\ b.m = ZeroM /\ a.k = "fin" /\ b.k = "fin" THEN 0
  ELSE IF a.s # b.s THEN 1 - 2 * a.s
  ELSE (1 - 2 * a.s) * MagCmp(a, b)

FLt(a, b) == ~IsNaN(a) /\ ~IsNaN(b) /\ FCmp(a, b) < 0

FLe(a, b) == ~IsNaN(a) /\ ~IsNaN(b) /\ FCmp(a, b) <= 0

FGt(a, b) == FLt(b, a)

FGe(a, b) == FLe(b, a)

FEq(a, b) == ~IsNaN(a) /\ ~IsNaN(b) /\ FCmp(a, b) = 0

FNe(a, b) == ~FEq(a, b)

\* the f64 of an integer -2^31 < n < 2^31
FromInt(n) == Do("FromInt", <<n>>)

FromInt_def(n) ==
  IF n = 0 THEN Zero(0)
  ELSE IF n < 0 THEN RoundPack(1, BFromInt(-n), 0, FALSE)
  ELSE RoundPack(0, BFromInt(n), 0, FALSE)

\* i as f64 / n as f64
Ratio(i, n) == Do("Ratio", <<i, n>>)

Ratio_def(i, n) == FDiv(FromInt(i), FromInt(n))

\* f64::trunc
FTrunc(a) == Do("FTrunc", <<a>>)

FTrunc_def(a) ==
  IF ~IsFinite(a) \/ IsZero(a) \/ a.e >= 0 THEN a
  ELSE IF a.e < -53 THEN Zero(a.s)
  ELSE LET q == BShr(Wide(a.m), -a.e)
       IN  IF BIsZero(q) THEN Zero(a.s) ELSE RoundPack(a.s, q, 0, FALSE)

\* f64::floor
FFloor(a) == Do("FFloor", <<a>>)

FFloor_def(a) ==
  IF ~IsFinite(a) \/ IsZero(a) \/ a.e >= 0 THEN a
  ELSE IF a.s = 0 THEN FTrunc(a)
  ELSE IF a.e < -53 THEN FromInt(-1)
  ELSE IF ~BLowBits(Wide(a.m), -a.e) THEN FTrunc(a)
  ELSE RoundPack(1, BAdd(BShr(Wide(a.m), -a.e), BFromInt(1)), 0, FALSE)

\* `as u8`: saturating, NaN to 0
AsU8(a) ==
  IF IsNaN(a) THEN 0
  ELSE IF a.s = 1 THEN 0
  ELSE IF IsInf(a) THEN 255
  ELSE IF IsZero(a) THEN 0
  ELSE IF Top(a) > 8 THEN 255
  ELSE IF Top(a) <= 0 THEN 0
  ELSE IF a.e >= 0 THEN BToInt(BShl(Wide(a.m), a.e))
  ELSE BToInt(BShr(Wide(a.m), -a.e))

(***************************************************************************)
(* The host's math library (f64::exp, ln, sin, cos, atan, powf; C's erf    *)
(* and tgamma).  The library is outside the repository; each function is   *)
(* given here by its IEEE / C99 special values and, elsewhere, by a        *)
(* series evaluated in f64 arithmetic that agrees with the library to a    *)
(* few units in the last place.                                            *)
(***************************************************************************)
One == Fin(0, <<0, 0, 0, 1024>>, -52)

Two == Fin(0, <<0, 0, 0, 1024>>, -51)

Half == Fin(0, <<0, 0, 0, 1024>>, -53)

\* the integer value of a finite integral f64 below 2^28 in magnitude
ToInt(a) ==
  IF IsZero(a) THEN 0
  ELSE LET n == IF a.e >= 0 THEN BToInt(BShl(Wide(a.m), a.e))
                ELSE BToInt(BShr(Wide(a.m), -a.e))
       IN  IF a.s = 1 THEN -n ELSE n

\* a * 2^k
Scalb(a, k) == Do("Scalb", <<a, k>>)

Scalb_def(a, k) ==
  IF ~IsFinite(a) \/ IsZero(a) THEN a ELSE RoundPack(a.s, Wide(a.m), a.e + k, FALSE)

LN2_HI == Fin(0, <<0, 15232, 9263, 1419>>, -53)  \* ln 2, high 32 bits = 0.6931471803691238

LN2_LO == Fin(0, <<15478, 5604, 7923, 1678>>, -85)  \* ln 2 - LN2_HI = 1.9082149292705877e-10

INV_LN2 == Fin(0, <<766, 5294, 5238, 1477>>, -52)  \* 1 / ln 2 = 1.4426950408889634

PIO2_1 == Fin(0, <<0, 4352, 8117, 1608>>, -52)  \* pi/2, high 33 bits = 1.5707963267341256

PIO2_1T == Fin(0, <<9009, 10633, 1553, 1069>>, -86)  \* pi/2 - PIO2_1 = 6.077100506506192e-11

TWO_OVER_PI == Fin(0, <<2179, 14119, 13062, 1303>>, -53)  \* 2 / pi = 0.6366197723675814

FRAC_PI_2 == Fin(0, <<11544, 4368, 8117, 1608>>, -52)  \* pi/2 = 1.5707963267948966

PIO2_LO == Fin(0, <<7175, 3153, 8803, 1129>>, -106)  \* pi/2 - FRAC_PI_2 = 6.123233995736766e-17

TWO_OVER_SQRTPI == Fin(0, <<7021, 266, 7541, 1155>>, -52)  \* 2 / sqrt(pi) = 1.1283791670955126

SQRT_PI == Fin(0, <<12138, 1747, 16265, 1814>>, -52)  \* sqrt(pi) = 1.7724538509055159

SQRT_HALF == Fin(0, <<15309, 6652, 2534, 1448>>, -53)  \* sqrt(1/2) = 0.7071067811865476

SQRT_2PI == Fin(0, <<9989, 16344, 6449, 1283>>, -51)  \* sqrt(2 pi) = 2.5066282746310002

PI == Fin(0, <<11544, 4368, 8117, 1608>>, -51)  \* 3.141592653589793

\* the Lanczos coefficients (g = 7, 9 terms)
LANCZOS ==
  << Fin(0, <<14672, 16383, 16383, 2047>>, -53),
     Fin(0, <<2821, 6924, 667, 1353>>, -43),
     Fin(1, <<5915, 15184, 2280, 1259>>, -42),
     Fin(0, <<13528, 1870, 10598, 1542>>, -43),
     Fin(1, <<12125, 1676, 15077, 1412>>, -45),
     Fin(0, <<7297, 15918, 15399, 1600>>, -49),
     Fin(1, <<10325, 9388, 2857, 1135>>, -55),
     Fin(0, <<12879, 14648, 1300, 1340>>, -69),
     Fin(0, <<12015, 15614, 5384, 1293>>, -75) >>

\* One step of a series evaluated from its last term inwards: the value with
\* term i taken into acc, the value of the terms after it.
SeriesStep(kind, r, i, acc) == Do("SeriesStep", <<kind, r, i, acc>>)

SeriesStep_def(kind, r, i, acc) ==
  LET q == CASE kind = "exp"     -> FDiv(r, FromInt(i))
             [] kind = "ln"      -> FDiv(One, FromInt(2 * i - 1))
             [] kind = "atan"    -> FDiv(One, FromInt(2 * i - 1))
             [] kind = "sin"     -> FDiv(r, FromInt((2 * i) * (2 * i + 1)))
             [] kind = "cos"     -> FDiv(r, FromInt((2 * i - 1) * (2 * i)))
             [] kind = "erf"     -> FDiv(FMul(Two, r), FromInt(2 * i + 1))
             [] kind = "erfc"    -> FDiv(FromInt(i), FMul(Two, r))
             [] kind = "lanczos" -> FDiv(LANCZOS[i + 1], FAdd(r, FromInt(i)))
  IN  CASE i <= 0           -> acc
        [] kind = "exp"     -> Last(<<q, FAdd(One, FMul(q, acc))>>)
        [] kind = "ln"      -> Last(<<q, FAdd(q, FMul(r, acc))>>)
        [] kind = "atan"    -> Last(<<q, FSub(q, FMul(r, acc))>>)
        [] kind = "sin"     -> Last(<<q, FSub(One, FMul(q, acc))>>)
        [] kind = "cos"     -> Last(<<q, FSub(One, FMul(q, acc))>>)
        [] kind = "erf"     -> Last(<<q, FAdd(One, FMul(q, acc))>>)
        [] kind = "erfc"    -> Last(<<q, FAdd(One, FDiv(q, acc))>>)
        [] kind = "lanczos" -> Last(<<q, FAdd(q, acc)>>)

\* the steps n, n - 1, ..., 1 from acc
Series(kind, r, n, acc) == Do("Series", <<kind, r, n, acc>>)

\* eight steps at a time (a step numbered 0 or less leaves acc as it is)
Series_def(kind, r, n, acc) ==
  IF n <= 0 THEN acc
  ELSE LET a1 == SeriesStep(kind, r, n, acc)
           a2 == SeriesStep(kind, r, n - 1, a1)
           a3 == SeriesStep(kind, r, n - 2, a2)
           a4 == SeriesStep(kind, r, n - 3, a3)
           a5 == SeriesStep(kind, r, n - 4, a4)
           a6 == SeriesStep(kind, r, n - 5, a5)
           a7 == SeriesStep(kind, r, n - 6, a6)
           a8 == SeriesStep(kind, r, n - 7, a7)
       IN  Series(kind, r, n - 8, Last(<<a1, a2, a3, a4, a5, a6, a7, a8>>))

\* 1 + r/1 (1 + r/2 (1 + ... (1 + r/14))): e^r for |r| <= ln(2)/2
ExpPoly(r) == Series("exp", r, 14, One)

exp(x) == Do("exp", <<x>>)

exp_def(x) ==
  IF IsNaN(x) THEN NaN
  ELSE IF FGt(x, FromInt(1000)) THEN INFINITY
  ELSE IF FLt(x, FromInt(-1000)) THEN Zero(0)
  ELSE LET kf == FFloor(FAdd(FMul(x, INV_LN2), Half))
           r  == FSub(FSub(x, FMul(kf, LN2_HI)), FMul(kf, LN2_LO))
           p  == ExpPoly(r)
       IN  Last(<<kf, r, p, Scalb(p, ToInt(kf))>>)

\* 1 + s2/3 + s2^2/5 + ... + s2^12/25: atanh(s)/s for s2 = s^2
LnPoly(s2) == Series("ln", s2, 12, FDiv(One, FromInt(25)))

log(x) == Do("log", <<x>>)

\* k ln 2 + 2 s p
LogSum(ef, s, p) ==
  Last(<<s, p, FAdd(FMul(ef, LN2_HI), FAdd(FMul(FMul(Two, s), p), FMul(ef, LN2_LO)))>>)

LogOfS(ef, s) == LogSum(ef, s, LnPoly(FMul(s, s)))

\* ln(m * 2^k) for sqrt(1/2) <= m < sqrt(2), with s = (m - 1) / (m + 1)
LogReduced(m, k) == LogOfS(FromInt(k), FDiv(FSub(m, One), FAdd(m, One)))

\* ln(m0 * 2^top) for 1/2 <= m0 < 1
LogNorm(m0, top) ==
  IF FLt(m0, SQRT_HALF) THEN LogReduced(FMul(m0, Two), top - 1)
  ELSE LogReduced(m0, top)

log_def(x) ==
  IF IsNaN(x) THEN NaN
  ELSE IF IsZero(x) THEN NEG_INFINITY
  ELSE IF x.s = 1 THEN NaN
  ELSE IF IsInf(x) THEN x
  ELSE LogNorm(Fin(0, Low4(BShl(Wide(x.m), 53 - BitLen(Wide(x.m)))), -53), Top(x))

\* 1 - s2/3 + s2^2/5 - ... + s2^13/27: atan(s)/s for s2 = s^2
AtanPoly(s2) == Series("atan", s2, 13, FDiv(One, FromInt(27)))

\* tan(atan(a) / 2)
AtanHalf(a) == Do("AtanHalf", <<a>>)

AtanHalf_def(a) ==
  LET s1 == FSqrt(FAdd(One, FMul(a, a)))
  IN  Last(<<s1, FDiv(a, FAdd(One, s1))>>)

atan(x) == Do("atan", <<x>>)

\* atan(b) for |b| <= tan(pi/16), times 4
AtanOfB(b) ==
  LET p1 == AtanPoly(FMul(b, b))
  IN  Last(<<b, p1, FMul(FromInt(4), FMul(b, p1))>>)

\* atan(a) for 0 <= a <= 1
AtanSmall(a) ==
  LET h1 == AtanHalf(a)
  IN  Last(<<h1, AtanOfB(AtanHalf(h1))>>)

\* atan(a0) for a0 >= 0
AtanAbs(a0) ==
  IF FGt(a0, One)
  THEN LET s1 == AtanSmall(FDiv(One, a0))
       IN  Last(<<s1, FAdd(FSub(FRAC_PI_2, s1), PIO2_LO)>>)
  ELSE AtanSmall(a0)

WithSign(r, s) == [r EXCEPT !.s = s]

atan_def(x) ==
  IF IsNaN(x) THEN NaN
  ELSE IF IsInf(x) THEN WithSign(FRAC_PI_2, x.s)
  ELSE WithSign(AtanAbs(FAbs(x)), x.s)

\* sin(r)/r and cos(r) for |r| <= pi/4, r2 = r^2
SinPoly(r2) == Series("sin", r2, 9, One)

CosPoly(r2) == Series("cos", r2, 9, One)

\* x = k * pi/2 + r with |r| <= pi/4: <<k mod 4, r>>
TrigReduce(x) == Do("TrigReduce", <<x>>)

TrigReduce_def(x) ==
  LET kf == FFloor(FAdd(FMul(x, TWO_OVER_PI), Half))
      r  == FSub(FSub(x, FMul(kf, PIO2_1)), FMul(kf, PIO2_1T))
      q  == FSub(kf, FMul(FromInt(4), FFloor(FDiv(kf, FromInt(4)))))
  IN  Last(<<kf, r, q, <<ToInt(q), r>>>>)

SinK(r) == Do("SinK", <<r>>)

SinK_def(r) ==
  LET r2 == FMul(r, r)
      p  == SinPoly(r2)
  IN  Last(<<r2, p, FMul(r, p)>>)

CosK(r) == Do("CosK", <<r>>)

CosK_def(r) ==
  LET r2 == FMul(r, r)
  IN  Last(<<r2, CosPoly(r2)>>)

sin(x) == Do("sin", <<x>>)

sin_def(x) ==
  IF IsNaN(x) \/ IsInf(x) THEN NaN
  ELSE IF IsZero(x) THEN x
  ELSE LET qr == TrigReduce(x)
       IN  CASE Last(<<qr, qr[1]>>) = 0 -> SinK(qr[2])
             [] qr[1] = 1 -> CosK(qr[2])
             [] qr[1] = 2 -> FNeg(SinK(qr[2]))
             [] OTHER     -> FNeg(CosK(qr[2]))

cos(x) == Do("cos", <<x>>)

cos_def(x) ==
  IF IsNaN(x) \/ IsInf(x) THEN NaN
  ELSE LET qr == TrigReduce(x)
       IN  CASE Last(<<qr, qr[1]>>) = 0 -> CosK(qr[2])
             [] qr[1] = 1 -> FNeg(SinK(qr[2]))
             [] qr[1] = 2 -> FNeg(CosK(qr[2]))
             [] OTHER     -> SinK(qr[2])

IsInteger(y) == IsFinite(y) /\ FEq(FFloor(y), y)

IsOddInteger(y) == Do("IsOddInteger", <<y>>)

IsOddInteger_def(y) ==
  /\ IsInteger(y)
  /\ ~IsZero(y)
  /\ y.e <= 0
  /\ FNe(FMul(FFloor(FDiv(y, Two)), Two), y)

\* C99 pow
pow(x, y) == Do("pow", <<x, y>>)

pow_def(x, y) ==
  IF IsZero(y) THEN One
  ELSE IF FEq(x, One) THEN One
  ELSE IF IsNaN(x) \/ IsNaN(y) THEN NaN
  ELSE IF IsZero(x)
  THEN (LET neg == IF x.s = 1 /\ IsOddInteger(y) THEN 1 ELSE 0
        IN  IF y.s = 1 THEN Inf(neg) ELSE Zero(neg))
  ELSE IF IsInf(y)
  THEN (IF FEq(FAbs(x), One) THEN One
        ELSE IF FGt(FAbs(x), One) = (y.s = 0) THEN INFINITY ELSE Zero(0))
  ELSE IF IsInf(x)
  THEN (LET neg == IF x.s = 1 /\ IsOddInteger(y) THEN 1 ELSE 0
        IN  IF y.s = 1 THEN Zero(neg) ELSE Inf(neg))
  ELSE IF x.s = 1
  THEN (IF ~IsInteger(y) THEN NaN
        ELSE LET l == log(FNeg(x))
                 r == exp(FMul(y, l))
             IN  Last(<<l, r, IF IsOddInteger(y) THEN FNeg(r) ELSE r>>))
  ELSE LET l == log(x)
       IN  Last(<<l, exp(FMul(y, l))>>)

\* 1 + 2 x2/3 (1 + 2 x2/5 (1 + ...)): erf(x) sqrt(pi) e^(x^2) / (2 x), x2 = x^2
ErfSeries(x2) == Series("erf", x2, 40, One)

\* 1 + (1/(2 x2)) / (1 + (2/(2 x2)) / (1 + ...)): the continued fraction of
\* e^(-x^2) / (x sqrt(pi) erfc(x))
ErfcCF(x2) == Series("erfc", x2, 30, One)

erf(x) == Do("erf", <<x>>)

erf_def(x) ==
  IF IsNaN(x) THEN NaN
  ELSE LET a  == FAbs(x)
           a2 == FMul(a, a)
           g  == exp(FNeg(a2))
           p  == IF FLt(a, FDiv(FromInt(5), Two)) THEN ErfSeries(a2) ELSE ErfcCF(a2)
           r  == IF FLt(a, FDiv(FromInt(5), Two))
                 THEN FMul(FMul(FMul(TWO_OVER_SQRTPI, a), g), p)
                 ELSE FSub(One, FDiv(FDiv(g, FMul(a, SQRT_PI)), p))
       IN  IF IsInf(a) \/ FGe(a, FromInt(6)) THEN [One EXCEPT !.s = x.s]
           ELSE Last(<<a2, g, p, r, [r EXCEPT !.s = x.s]>>)

\* LANCZOS[2]/(z + 1) + ... + LANCZOS[9]/(z + 8)
LanczosSum(z) == Series("lanczos", z, 7, FDiv(LANCZOS[9], FAdd(z, FromInt(8))))

\* Gamma(x) for x >= 1/2; the power is taken in two halves, which keeps the
\* intermediate values finite up to the overflow threshold
GammaPos(x) == Do("GammaPos", <<x>>)

GammaPos_def(x) ==
  LET z == FSub(x, One)
      s == FAdd(LANCZOS[1], LanczosSum(z))
      t == FAdd(z, FDiv(FromInt(15), Two))
      w == pow(t, FMul(FAdd(z, Half), Half))
      g == exp(FNeg(t))
  IN  Last(<<z, s, t, w, g, FMul(FMul(FMul(FMul(SQRT_2PI, w), g), w), s)>>)

\* C99 tgamma
tgamma(x) == Do("tgamma", <<x>>)

tgamma_def(x) ==
  IF IsNaN(x) THEN NaN
  ELSE IF IsZero(x) THEN Inf(x.s)
  ELSE IF IsInf(x) THEN (IF x.s = 0 THEN x ELSE NaN)
  ELSE IF x.s = 1 /\ IsInteger(x) THEN NaN
  ELSE IF FGt(x, FromInt(172)) THEN INFINITY
  ELSE IF FLt(x, Half)
  THEN LET sn == sin(FMul(PI, x))
            g  == GammaPos(FSub(One, x))
       IN  IF FGt(x, FromInt(-200)) THEN Last(<<sn, g, FDiv(PI, FMul(sn, g))>>)
           ELSE FMul(Zero(0), sn)
  ELSE GammaPos(x)

\* ---------------------------------------------------------------------
\* normal.rs.  The coefficient tables of ppf (algorithm AS 241) are the f64
\* values of the decimal literals of the source; index i of the source is
\* index i + 1 here.

E == Fin(0, <<5993, 11345, 12456, 1391>>, -51)  \* std::f64::consts::E = 2.718281828459045

SQRT_2 == Fin(0, <<15309, 6652, 2534, 1448>>, -52)  \* std::f64::consts::SQRT_2 = 1.4142135623730951

A ==
  << Fin(0, <<12149, 14971, 3473, 1734>>, -51),
     Fin(0, <<878, 11369, 2184, 1065>>, -45),
     Fin(0, <<204, 2127, 9682, 1971>>, -42),
     Fin(0, <<10013, 13627, 7564, 1716>>, -39),
     Fin(0, <<13610, 6765, 1000, 1435>>, -37),
     Fin(0, <<3872, 5854, 453, 1051>>, -36),
     Fin(0, <<1508, 11449, 11558, 1044>>, -37),
     Fin(0, <<4702, 15862, 8854, 1254>>, -41) >>

B ==
  << Fin(0, <<6837, 8632, 435, 1354>>, -47),
     Fin(0, <<13303, 14114, 6127, 1374>>, -43),
     Fin(0, <<2207, 14807, 8994, 1348>>, -40),
     Fin(0, <<4710, 5977, 14125, 1325>>, -38),
     Fin(0, <<13502, 10643, 6090, 1228>>, -37),
     Fin(0, <<11894, 12998, 9303, 1795>>, -38),
     Fin(0, <<2921, 10849, 10220, 1306>>, -40) >>

C ==
  << Fin(0, <<4714, 14245, 9823, 1457>>, -52),
     Fin(0, <<12699, 9002, 6004, 1185>>, -50),
     Fin(0, <<9578, 4488, 16241, 1476>>, -50),
     Fin(0, <<708, 10484, 11441, 1867>>, -51),
     Fin(0, <<13746, 8525, 15552, 1300>>, -52),
     Fin(0, <<7223, 9953, 10939, 1980>>, -55),
     Fin(0, <<11367, 12567, 3766, 1489>>, -58),
     Fin(0, <<11497, 734, 5548, 1624>>, -63) >>

D ==
  << Fin(0, <<9289, 11546, 3835, 1051>>, -51),
     Fin(0, <<9779, 6473, 10126, 1716>>, -52),
     Fin(0, <<1481, 2254, 10543, 1412>>, -53),
     Fin(0, <<12352, 3667, 4387, 1213>>, -55),
     Fin(0, <<6079, 15020, 1959, 1992>>, -59),
     Fin(0, <<10024, 16252, 6347, 1148>>, -63),
     Fin(0, <<14820, 8592, 5110, 1155>>, -82) >>

E2 ==
  << Fin(0, <<9510, 1275, 6940, 1704>>, -50),
     Fin(0, <<4099, 14877, 11942, 1398>>, -50),
     Fin(0, <<9285, 6270, 10852, 1827>>, -52),
     Fin(0, <<5583, 1353, 11667, 1214>>, -54),
     Fin(0, <<3815, 9453, 13329, 1738>>, -58),
     Fin(0, <<4933, 8457, 400, 1303>>, -62),
     Fin(0, <<8234, 12647, 11372, 1819>>, -68),
     Fin(0, <<16275, 6734, 14157, 1726>>, -75) >>

F ==
  << Fin(0, <<6015, 16159, 7476, 1228>>, -53),
     Fin(0, <<1019, 8401, 11953, 1121>>, -55),
     Fin(0, <<1578, 2133, 12179, 1949>>, -59),
     Fin(0, <<1495, 7799, 3017, 1650>>, -63),
     Fin(0, <<13503, 9613, 708, 1239>>, -68),
     Fin(0, <<14816, 7426, 1135, 1221>>, -75),
     Fin(0, <<400, 2019, 7167, 1178>>, -101) >>

\* The numerator polynomial of ppf, lines 114 and 130:
\* ((((((a[7] r + a[6]) r + a[5]) r + a[4]) r + a[3]) r + a[2]) r + a[1]) r + a[0]
PpfNum(a, r) == Do("PpfNum", <<a, r>>)

PpfNum_def(a, r) ==
  LET h6 == FAdd(FMul(a[8], r), a[7])
      h5 == FAdd(FMul(h6, r), a[6])
      h4 == FAdd(FMul(h5, r), a[5])
      h3 == FAdd(FMul(h4, r), a[4])
      h2 == FAdd(FMul(h3, r), a[3])
      h1 == FAdd(FMul(h2, r), a[2])
      h0 == FAdd(FMul(h1, r), a[1])
  IN  Last(<<h6, h5, h4, h3, h2, h1, h0>>)

\* The denominator polynomial of ppf, lines 115 and 131:
\* ((((((b[6] r + b[5]) r + b[4]) r + b[3]) r + b[2]) r + b[1]) r + b[0]) r + 1.0
PpfDen(b, r) == Do("PpfDen", <<b, r>>)

PpfDen_def(b, r) ==
  LET h5 == FAdd(FMul(b[7], r), b[6])
      h4 == FAdd(FMul(h5, r), b[5])
      h3 == FAdd(FMul(h4, r), b[4])
      h2 == FAdd(FMul(h3, r), b[3])
      h1 == FAdd(FMul(h2, r), b[2])
      h0 == FAdd(FMul(h1, r), b[1])
      h  == FAdd(FMul(h0, r), One)
  IN  Last(<<h5, h4, h3, h2, h1, h0, h>>)

\* Normal::pdf
Normal_pdf(x, mean, std_dev) == Do("Normal_pdf", <<x, mean, std_dev>>)

Normal_pdf_def(x, mean, std_dev) ==
  IF FLe(std_dev, Zero(0)) THEN NaN
  ELSE LET n  == FDiv(FSub(x, mean), std_dev)
           c  == FDiv(One, FMul(std_dev, FSqrt(FMul(Two, PI))))
           ex == FMul(FMul(FNeg(Half), n), n)
           pw == pow(E, ex)
       IN  Last(<<n, c, ex, pw, FMul(c, pw)>>)

\* Normal::cdf
Normal_cdf(x, mean, std_dev) == Do("Normal_cdf", <<x, mean, std_dev>>)

\* Normal::cdf without the test of std_dev
Normal_cdf_NoGuard(x, mean, std_dev) ==
  LET u  == FDiv(FSub(x, mean), FMul(std_dev, SQRT_2))
      er == erf(u)
  IN  Last(<<u, er, FMul(Half, FAdd(One, er))>>)

\* Normal::cdf without the 1.0 added to erf
Normal_cdf_Unshifted(x, mean, std_dev) ==
  IF FLe(std_dev, Zero(0)) THEN NaN
  ELSE LET u  == FDiv(FSub(x, mean), FMul(std_dev, SQRT_2))
           er == erf(u)
       IN  Last(<<u, er, FMul(Half, er)>>)

Normal_cdf_def(x, mean, std_dev) ==
  IF FLe(std_dev, Zero(0)) THEN NaN
  ELSE LET u  == FDiv(FSub(x, mean), FMul(std_dev, SQRT_2))
           er == erf(u)
       IN  Last(<<u, er, FMul(Half, FAdd(One, er))>>)

\* The central branch of Normal::ppf, lines 110-115 (|q| < 0.425).
PpfCentral(q, mean, std_dev) == Do("PpfCentral", <<q, mean, std_dev>>)

\* The central branch of Normal::ppf, lines 110-115 (|q| < 0.425).
PpfCentralAt(q, mean, std_dev, r) ==
  LET u1 == PpfNum(A, r)
      v1 == PpfDen(B, r)
  IN  Last(<<u1, v1, FAdd(mean, FDiv(FMul(FMul(std_dev, q), u1), v1))>>)

PpfCentral_def(q, mean, std_dev) ==
  PpfCentralAt(q, mean, std_dev,
               FSub(Fin(0, <<1311, 1966, 11141, 1479>>, -55), FMul(q, q)))  \* 0.180625

\* The tail branch of Normal::ppf, lines 117-131.
PpfTail(p, q, mean, std_dev) == Do("PpfTail", <<p, q, mean, std_dev>>)

\* lines 128-131, with the tables a, b and the r selected at lines 119-127
PpfTailRatio(q, mean, std_dev, a, b, r) ==
  LET u1 == PpfNum(a, r)
      v1 == PpfDen(b, r)
  IN  Last(<<u1, v1,
             FAdd(mean,
                  FDiv(FMul(FMul(std_dev, IF FLt(q, Zero(0)) THEN FNeg(One) ELSE One), u1),
                       v1))>>)

\* PpfTailAt with the far-tail tables and shift whatever r is
PpfTailAt_Far(q, mean, std_dev, r1) ==
  PpfTailRatio(q, mean, std_dev, E2, F, FSub(r1, FromInt(5)))

\* lines 119-127: r1 is r after line 118
PpfTailAt(q, mean, std_dev, r1) ==
  IF FLt(r1, FromInt(5))
  THEN PpfTailRatio(q, mean, std_dev, C, D,
                    FSub(r1, Fin(0, <<6554, 9830, 6553, 1638>>, -52)))  \* 1.6
  ELSE PpfTailRatio(q, mean, std_dev, E2, F, FSub(r1, FromInt(5)))

\* The tail branch of Normal::ppf, lines 117-131.
PpfTail_def(p, q, mean, std_dev) ==
  LET l1 == log(IF FLt(q, Zero(0)) THEN p ELSE FSub(One, p))
      r1 == FSqrt(FNeg(l1))
  IN  Last(<<l1, r1, PpfTailAt(q, mean, std_dev, r1)>>)

\* Normal::ppf
Normal_ppf(p, mean, std_dev) == Do("Normal_ppf", <<p, mean, std_dev>>)

\* Normal::ppf without the test of a NaN mean
Normal_ppf_NoMeanCheck(p, mean, std_dev) ==
  IF \/ FLt(p, Zero(0))
     \/ FGt(p, One)
     \/ FLe(std_dev, Zero(0))
     \/ IsNaN(std_dev)
  THEN NaN
  ELSE IF FEq(p, Zero(0)) THEN NEG_INFINITY
  ELSE IF FEq(p, One) THEN INFINITY
  ELSE LET q == FSub(p, Half)
       IN  IF FLt(FAbs(q), Fin(0, <<13107, 3276, 13107, 1740>>, -54))
           THEN PpfCentral(q, mean, std_dev)
           ELSE PpfTail(p, q, mean, std_dev)

Normal_ppf_def(p, mean, std_dev) ==
  IF \/ FLt(p, Zero(0))
     \/ FGt(p, One)
     \/ FLe(std_dev, Zero(0))
     \/ IsNaN(mean)
     \/ IsNaN(std_dev)
  THEN NaN
  ELSE IF FEq(p, Zero(0)) THEN NEG_INFINITY
  ELSE IF FEq(p, One) THEN INFINITY
  ELSE LET q == FSub(p, Half)
       IN  IF FLt(FAbs(q), Fin(0, <<13107, 3276, 13107, 1740>>, -54))  \* 0.425
           THEN PpfCentral(q, mean, std_dev)
           ELSE PpfTail(p, q, mean, std_dev)

\* ---------------------------------------------------------------------
\* students_t.rs

\* StudentsT::pdf
StudentsT_pdf(x, n) == Do("StudentsT_pdf", <<x, n>>)

\* StudentsT::pdf without the return of Normal::pdf for an infinite n
StudentsT_pdf_NoNormal(x, n) ==
  IF IsNaN(n) \/ FLe(n, Zero(0)) THEN NaN
  ELSE LET g1 == tgamma(FDiv(FAdd(n, One), Two))
           sq == FSqrt(FMul(n, PI))
           g2 == tgamma(FDiv(n, Two))
           c  == FDiv(g1, FMul(sq, g2))
           bs == FAdd(One, FDiv(FMul(x, x), n))
           ex == FDiv(FNeg(FAdd(n, One)), Two)
           pw == pow(bs, ex)
       IN  Last(<<g1, sq, g2, c, bs, ex, pw, FMul(c, pw)>>)

StudentsT_pdf_def(x, n) ==
  IF IsNaN(n) \/ FLe(n, Zero(0)) THEN NaN
  ELSE IF FEq(n, INFINITY) THEN Normal_pdf(x, Zero(0), One)
  ELSE LET g1 == tgamma(FDiv(FAdd(n, One), Two))
           sq == FSqrt(FMul(n, PI))
           g2 == tgamma(FDiv(n, Two))
           c  == FDiv(g1, FMul(sq, g2))
           bs == FAdd(One, FDiv(FMul(x, x), n))
           ex == FDiv(FNeg(FAdd(n, One)), Two)
           pw == pow(bs, ex)
       IN  Last(<<g1, sq, g2, c, bs, ex, pw, FMul(c, pw)>>)

\* StudentsT::cdf, lines 58-65: the asymptotic series for large or
\* non-integer n, entered with y = t / n and b = 1 + y.
CdfAsymptotic(n, y0, b0, start, sign) == Do("CdfAsymptotic", <<n, y0, b0, start, sign>>)

\* line 64: the new y, from b of line 62 and y of line 63
CdfAsymptoticY(b, y) ==
  LET u1 == FSub(FMul(FSub(FMul(Fin(1, <<6554, 9830, 6553, 1638>>, -54), y),  \* -0.4
                           Fin(0, <<9830, 6553, 9830, 1689>>, -51)),  \* 3.3
                      y),
                 FromInt(24))
      u2 == FSub(FMul(u1, y), Fin(0, <<0, 0, 0, 1368>>, -46))  \* 85.5
      v1 == FAdd(FAdd(FMul(FMul(Fin(0, <<6554, 9830, 6553, 1638>>, -53), y), y),  \* 0.8
                      FromInt(100)),
                 b)
      q1 == FAdd(FAdd(FDiv(u2, v1), y), FromInt(3))
      q2 == FAdd(FDiv(q1, b), One)
  IN  Last(<<b, y, u1, u2, v1, q1, q2, FMul(q2, FSqrt(y))>>)

\* lines 62-65, with y after lines 58-60 and a of line 61
CdfAsymptoticFrom(y1, a, start, sign) ==
  LET y2 == CdfAsymptoticY(FMul(FMul(FromInt(48), a), a), FMul(y1, a))
      c1 == Normal_cdf(FNeg(y2), Zero(0), One)
  IN  Last(<<y1, a, y2, c1, FAdd(start, FMul(sign, c1))>>)

\* StudentsT::cdf, lines 58-65: the asymptotic series for large or
\* non-integer n, entered with y = t / n and b = 1 + y.
CdfAsymptotic_def(n, y0, b0, start, sign) ==
  CdfAsymptoticFrom(IF FGt(y0, Fin(0, <<10481, 9101, 2904, 1342>>, -69))  \* 10e-6
                    THEN log(b0) ELSE y0,
                    FSub(n, Half), start, sign)

\* StudentsT::cdf, lines 84 and 108: one step of the backward recurrence,
\* (n - 1) as f64 / (b * n as f64) * a + y, n being the u8.
CdfRecur(n_u8, a, b, y) == Do("CdfRecur", <<n_u8, a, b, y>>)

\* StudentsT::cdf, lines 84 and 108: one step of the backward recurrence,
\* (n - 1) as f64 / (b * n as f64) * a + y, n being the u8.
CdfRecur_def(n_u8, a, b, y) ==
  FAdd(FMul(FDiv(FromInt(n_u8 - 1), FMul(b, FromInt(n_u8))), a), y)

\* StudentsT::cdf, lines 88-89 and 111-112: the closed form at n = 0 or 1
\* and the mirrored result start + sign * (z - a) / 2.0.
CdfClose(n_u8, a, b, y, z, start, sign) == Do("CdfClose", <<n_u8, a, b, y, z, start, sign>>)

\* StudentsT::cdf, lines 88-89 and 111-112: the closed form at n = 0 or 1
\* and the mirrored result start + sign * (z - a) / 2.0.
CdfClose_def(n_u8, a, b, y, z, start, sign) ==
  LET a1 == IF n_u8 = 0 THEN FDiv(a, FSqrt(b))
            ELSE FMul(FAdd(atan(y), FDiv(a, b)), FDiv(Two, PI))
  IN  Last(<<a1, FAdd(start, FDiv(FMul(sign, FSub(z, a1)), Two))>>)

\* StudentsT::cdf, lines 98-100: the body of the tail series after j += 2;
\* j1 is the new j, jm1 the u8 j - 1 and nj the u8 n + j.  <<y, a>> after it.
CdfTailBody(a, b, y, j1, jm1, nj) == Do("CdfTailBody", <<a, b, y, j1, jm1, nj>>)

\* line 100 after line 99 gave y1
CdfTailSum(a, y1, nj) == <<y1, FAdd(a, FDiv(y1, FromInt(nj)))>>

\* StudentsT::cdf, lines 98-100: the body of the tail series after j += 2;
\* j1 is the new j, jm1 the u8 j - 1 and nj the u8 n + j.  <<y, a>> after it.
CdfTailBody_def(a, b, y, j1, jm1, nj) ==
  CdfTailSum(a, FDiv(FMul(y, FromInt(jm1)), FMul(b, FromInt(j1))), nj)

\* The locals of StudentsT::cdf when it has returned v before setting them.
CdfReturn(v) ==
  [pc |-> "done", ret |-> v, a |-> Zero(0), b |-> Zero(0), y |-> Zero(0),
   z |-> Zero(0), j |-> 0, n_u8 |-> 0, start |-> Zero(0), sign |-> Zero(0),
   branch |-> "none"]

\* StudentsT::cdf, lines 45-95: from the mirror flags to the return of the
\* asymptotic branch, or to the head of the loop of the branch taken.
CdfBranch(x, n) == Do("CdfBranch", <<x, n>>)

\* line 72: the test of the cosine branch, n being the u8
CdfIsCosine(u, t) == u < 20 /\ FLt(t, FromInt(4))

\* lines 70-95: the head of the loop of the branch taken, n being the u8
CdfLoopHead(u, t, y, b, start, sign) ==
  IF CdfIsCosine(u, t)
  THEN LET y1 == FSqrt(y)
       IN  [pc |-> "cos", ret |-> Zero(0),
            a |-> IF u = 1 THEN Zero(0) ELSE y1, b |-> b, y |-> y1, z |-> One,
            j |-> 0, n_u8 |-> IF u > 1 THEN u - 2 ELSE u,
            start |-> start, sign |-> sign, branch |-> "cosine"]
  ELSE LET a1 == FSqrt(b)
       IN  [pc |-> "tail", ret |-> Zero(0),
            a |-> a1, b |-> b, y |-> FMul(a1, FromInt(u)), z |-> One,
            j |-> 0, n_u8 |-> u, start |-> start, sign |-> sign, branch |-> "tail"]

\* CdfIsAsymptotic without the test for a fractional n
CdfIsAsymptotic_NoFloor(n, t) ==
  (FGe(n, FromInt(20)) /\ FLt(t, n)) \/ FGt(n, FromInt(200))

\* CdfIsAsymptotic without the test of t against n
CdfIsAsymptotic_NoT(n, t) == FGt(n, FFloor(n)) \/ FGe(n, FromInt(20))

\* line 56: the test of the asymptotic branch
CdfIsAsymptotic(n, t) ==
  \/ FGt(n, FFloor(n))
  \/ (FGe(n, FromInt(20)) /\ FLt(t, n))
  \/ FGt(n, FromInt(200))

\* lines 54-70, with t of line 52 and y of line 53
CdfSelect(n, start, sign, t, y) ==
  IF CdfIsAsymptotic(n, t)
  THEN [CdfReturn(CdfAsymptotic(n, y, FAdd(One, y), start, sign))
          EXCEPT !.start = start, !.sign = sign, !.z = One, !.branch = "asymptotic"]
  ELSE CdfLoopHead(AsU8(n), t, y, FAdd(One, y), start, sign)

\* lines 52-53
CdfFrom(n, start, sign, t) == Last(<<t, CdfSelect(n, start, sign, t, FDiv(t, n))>>)

\* CdfBranch with start = 0 and sign = 1 whatever the sign of x
CdfBranch_OneSided(x, n) == CdfFrom(n, Zero(0), One, FMul(x, x))

\* StudentsT::cdf, lines 45-95: from the mirror flags to the return of the
\* asymptotic branch, or to the head of the loop of the branch taken.
CdfBranch_def(x, n) ==
  IF FLt(x, Zero(0)) THEN CdfFrom(n, Zero(0), One, FMul(x, x))
  ELSE CdfFrom(n, One, FNeg(One), FMul(x, x))

\* StudentsT::cdf, lines 26-95: the boundary returns, then CdfBranch.
CdfEnter(x, n) == Do("CdfEnter", <<x, n>>)

CdfEnter_def(x, n) ==
  IF IsNaN(x) \/ IsNaN(n) \/ FLt(n, One) THEN CdfReturn(NaN)
  ELSE IF FEq(x, NEG_INFINITY) THEN CdfReturn(Zero(0))
  ELSE IF FEq(x, INFINITY) THEN CdfReturn(One)
  ELSE IF FEq(n, INFINITY) THEN CdfReturn(Normal_cdf(x, Zero(0), One))
  ELSE CdfBranch(x, n)

\* StudentsT::ppf, lines 159-167: the asymptotic inverse expansion about
\* the normal; the value of y after it.
PpfExpansion(p, n, a, b, c0, d) == Do("PpfExpansion", <<p, n, a, b, c0, d>>)

\* line 164: c after it, from c after lines 161-163
PpfExpansionC(c1, b, d, x) ==
  LET u1 == FMul(FSub(FMul(FMul(Fin(0, <<6554, 9830, 6553, 1638>>, -57), d), x),  \* 0.05
                      FromInt(5)),
                 x)
      u2 == FSub(FMul(FSub(u1, FromInt(7)), x), Two)
  IN  Last(<<c1, u1, u2, FAdd(c1, FAdd(FMul(u2, x), b))>>)

\* line 165: y after it, from y of line 160 and c of line 164
PpfExpansionY(b, c, x, y) ==
  LET u1 == FAdd(FMul(FAdd(FMul(Fin(0, <<6554, 9830, 6553, 1638>>, -54), y),  \* 0.4
                           Fin(0, <<13107, 3276, 13107, 1612>>, -50)),  \* 6.3
                      y),
                 FromInt(36))
      u2 == FAdd(FMul(u1, y), Fin(0, <<0, 0, 0, 1512>>, -46))  \* 94.5
      q1 == FSub(FSub(FDiv(u2, c), y), FromInt(3))
      q2 == FAdd(FDiv(q1, b), One)
  IN  Last(<<c, y, u1, u2, q1, q2, FMul(q2, x)>>)

\* line 167
PpfExpm1(y) ==
  IF FGt(y, Fin(0, <<10748, 3014, 9437, 1048>>, -61))  \* 0.002
  THEN LET e1 == exp(y) IN Last(<<e1, FSub(e1, One)>>)
  ELSE FAdd(FMul(FMul(Half, y), y), y)

\* line 166
PpfTimesA(a, y) == FMul(FMul(a, y), y)

\* lines 160-167, with x of line 159
PpfExpansionAt(n, a, b, c0, d, x) ==
  LET c1 == IF FLt(n, FromInt(5))
            THEN FAdd(c0, FMul(FMul(Fin(0, <<13107, 3276, 13107, 1228>>, -54),  \* 0.3
                                    FSub(n, Fin(0, <<0, 0, 0, 1152>>, -50))),  \* 4.5
                               FAdd(x, Fin(0, <<13107, 3276, 13107, 1228>>, -53))))  \* 0.6
            ELSE c0
      y1 == PpfExpansionY(b, PpfExpansionC(c1, b, d, x), x, FMul(x, x))
      y2 == PpfTimesA(a, y1)
  IN  Last(<<x, c1, y1, y2, PpfExpm1(y2)>>)

\* StudentsT::ppf, lines 159-167: the asymptotic inverse expansion about
\* the normal; the value of y after it.
PpfExpansion_def(p, n, a, b, c0, d) ==
  PpfExpansionAt(n, a, b, c0, d, Normal_ppf(FMul(p, Half), Zero(0), One))

\* StudentsT::ppf, line 169: the direct correction; the value of y after it.
PpfDirect(n, y, d) == Do("PpfDirect", <<n, y, d>>)

\* StudentsT::ppf, line 169: the direct correction; the value of y after it.
PpfDirect_def(n, y, d) ==
  LET u1 == FSub(FSub(FDiv(FAdd(n, FromInt(6)), FMul(n, y)),
                      FMul(Fin(0, <<4194, 9568, 2883, 1458>>, -56), d)),  \* 0.089
                 Fin(0, <<15335, 1703, 7471, 1683>>, -53))  \* 0.822
      u2 == FDiv(One, FMul(FMul(u1, FAdd(n, Two)), FromInt(3)))
      u3 == FSub(FMul(FAdd(u2, FDiv(Half, FAdd(n, FromInt(4)))), y), One)
      u4 == FDiv(FMul(u3, FAdd(n, One)), FAdd(n, Two))
  IN  Last(<<u1, u2, u3, u4, FAdd(u4, FDiv(One, y))>>)

\* StudentsT::ppf, lines 151-171: Hill's algorithm 396 for n other than 1, 2.
PpfHill(p, n, sign, half_pi) == Do("PpfHill", <<p, n, sign, half_pi>>)

\* lines 157-171, with y of line 156
PpfHillY(p, n, sign, a, b, c, d, y) ==
  LET y1 == IF FGt(y, FAdd(Fin(0, <<6554, 9830, 6553, 1638>>, -57), a))  \* 0.05
            THEN PpfExpansion(p, n, a, b, c, d)
            ELSE PpfDirect(n, y, d)
  IN  Last(<<y, y1, FMul(sign, FSqrt(FMul(n, y1)))>>)

\* lines 155-156
PpfHillD(p, n, sign, a, b, c, d) ==
  Last(<<d, PpfHillY(p, n, sign, a, b, c, d, pow(FMul(d, p), FDiv(Two, n)))>>)

\* line 154
PpfHillC(p, n, sign, half_pi, a, b, c) ==
  LET u1 == FAdd(FDiv(FSub(FDiv(Fin(0, <<0, 0, 0, 1512>>, -46), FAdd(b, c)),  \* 94.5
                           FromInt(3)),
                      b),
                 One)
      u2 == FSqrt(FMul(a, half_pi))
  IN  Last(<<c, u1, u2, PpfHillD(p, n, sign, a, b, c, FMul(FMul(u1, u2), n))>>)

\* line 153
PpfHillB(p, n, sign, half_pi, a, b) ==
  LET u1 == FSub(FMul(FSub(FDiv(FMul(FromInt(20700), a), b), FromInt(98)), a),
                 FromInt(16))
  IN  Last(<<b, u1, PpfHillC(p, n, sign, half_pi, a, b,
                             FAdd(FMul(u1, a), Fin(0, <<9175, 13762, 12451, 1541>>, -46)))>>)  \* 96.36

\* line 152
PpfHillA(p, n, sign, half_pi, a) ==
  Last(<<a, PpfHillB(p, n, sign, half_pi, a, FDiv(FromInt(48), FMul(a, a)))>>)

\* StudentsT::ppf, lines 151-171: Hill's algorithm 396 for n other than 1, 2.
PpfHill_def(p, n, sign, half_pi) ==
  PpfHillA(p, n, sign, half_pi, FDiv(One, FSub(n, Half)))

\* StudentsT::ppf
StudentsT_ppf(p0, n) == Do("StudentsT_ppf", <<p0, n>>)

\* lines 146-149
PpfCauchy(sign, p) ==
  LET c1 == cos(p)
      s1 == sin(p)
  IN  Last(<<p, c1, s1, FDiv(FMul(sign, c1), s1)>>)

\* lines 140-171, with the sign of line 131 and p of line 138
PpfOneTail(n, sign, p) ==
  IF FEq(n, Two)
  THEN Last(<<p, FMul(sign, FSqrt(FSub(FDiv(Two, FMul(p, FSub(Two, p))), Two)))>>)
  ELSE IF FEq(n, One)
  THEN PpfCauchy(sign, FMul(p, FDiv(PI, Two)))
  ELSE PpfHill(p, n, sign, FDiv(PI, Two))

\* StudentsT::ppf taking the upper tail whatever p is
StudentsT_ppf_UpperOnly(p0, n) ==
  IF ~(FLe(Zero(0), p0) /\ FLe(p0, One)) \/ FLt(n, One) THEN NaN
  ELSE IF FEq(n, INFINITY) THEN Normal_ppf(p0, Zero(0), One)
  ELSE PpfOneTail(n, One, FMul(Two, FSub(One, p0)))

\* StudentsT::ppf
StudentsT_ppf_def(p0, n) ==
  IF ~(FLe(Zero(0), p0) /\ FLe(p0, One)) \/ FLt(n, One) THEN NaN
  ELSE IF FEq(n, INFINITY) THEN Normal_ppf(p0, Zero(0), One)
  ELSE IF FLt(p0, Half)
  THEN PpfOneTail(n, FNeg(One), FMul(Two, FSub(One, FSub(One, p0))))
  ELSE PpfOneTail(n, One, FMul(Two, FSub(One, p0)))

\* ---------------------------------------------------------------------
\* gamma.rs

COEFFICIENTS ==
  << Fin(0, <<2821, 6924, 667, 1353>>, -43),
     Fin(1, <<5915, 15184, 2280, 1259>>, -42),
     Fin(0, <<13528, 1870, 10598, 1542>>, -43),
     Fin(1, <<12125, 1676, 15077, 1412>>, -45),
     Fin(0, <<7297, 15918, 15399, 1600>>, -49),
     Fin(1, <<10325, 9388, 2857, 1135>>, -55),
     Fin(0, <<12879, 14648, 1300, 1340>>, -69),
     Fin(0, <<12015, 15614, 5384, 1293>>, -75) >>

\* Option<f64>
None == [some |-> FALSE, v |-> Zero(0)]

Some(v) == [some |-> TRUE, v |-> v]

\* gamma_undefined_for without the test for a whole number
gamma_undefined_NoTrunc(x) == FLt(x, Half)

gamma_undefined_for(x) == FLt(x, Half) /\ FEq(FTrunc(x), x)

\* One pass of the loop of lanczos_gamma: x += pval / (z + i + 1.0), i from 0.
LanczosTerm(x, z, i) == Do("LanczosTerm", <<x, z, i>>)

LanczosTerm_def(x, z, i) ==
  FAdd(x, FDiv(COEFFICIENTS[i + 1], FAdd(FAdd(z, FromInt(i)), One)))

lanczos_gamma(z0) == Do("lanczos_gamma", <<z0>>)

\* lines 96-97, with z of line 88 and x after the loop
LanczosValue(z, x, t) ==
  LET pw == pow(t, FAdd(z, Half))
      ex == exp(FNeg(t))
  IN  Last(<<x, pw, ex, FMul(FMul(FMul(FSqrt(FMul(Two, PI)), pw), ex), x)>>)

\* lines 89-94: x after the loop
LanczosLoop(z) ==
  LET x1 == LanczosTerm(Fin(0, <<14672, 16383, 16383, 2047>>, -53), z, 0)  \* 0.99999999999980993
      x2 == LanczosTerm(x1, z, 1)
      x3 == LanczosTerm(x2, z, 2)
      x4 == LanczosTerm(x3, z, 3)
      x5 == LanczosTerm(x4, z, 4)
      x6 == LanczosTerm(x5, z, 5)
      x7 == LanczosTerm(x6, z, 6)
  IN  Last(<<x1, x2, x3, x4, x5, x6, x7, LanczosTerm(x7, z, 7)>>)

LanczosFrom(z) ==
  LanczosValue(z, LanczosLoop(z), FAdd(FSub(z, Half), FromInt(Len(COEFFICIENTS))))

lanczos_gamma_def(z0) == LanczosFrom(FSub(z0, One))

reflection_formula(x) == Do("reflection_formula", <<x>>)

\* line 82, with z the argument handed to lanczos_gamma
ReflectionWith(x, z) ==
  LET s1 == sin(FMul(PI, x))
      g1 == lanczos_gamma(z)
  IN  Last(<<s1, g1, FDiv(PI, FMul(s1, g1))>>)

reflection_formula_def(x) == ReflectionWith(x, FSub(One, x))

\* lines 64-70 and 82: the way calculate takes for x, and the argument z
\* that lanczos_gamma is called with on that way
GammaEnter(x) == Do("GammaEnter", <<x>>)

\* GammaEnter without the reflection: lanczos_gamma is called on x itself
GammaEnter_Direct(x) ==
  IF gamma_undefined_for(x) THEN [branch |-> "undefined", z |-> x]
  ELSE [branch |-> "direct", z |-> x]

GammaEnter_def(x) ==
  IF gamma_undefined_for(x) THEN [branch |-> "undefined", z |-> x]
  ELSE IF FLt(x, Half) THEN [branch |-> "reflection", z |-> FSub(One, x)]
  ELSE [branch |-> "direct", z |-> x]

\* lines 67-69 and 82: lanczos_gamma(z) and what is made of its value
GammaLeave(x, z, br) == Do("GammaLeave", <<x, z, br>>)

GammaLeave_def(x, z, br) ==
  IF br = "reflection" THEN Some(ReflectionWith(x, z)) ELSE Some(lanczos_gamma(z))

\* gamma::calculate
calculate(x) == Do("calculate", <<x>>)

calculate_def(x) ==
  LET f == GammaEnter(x)
  IN  IF f.branch = "undefined" THEN None ELSE GammaLeave(x, f.z, f.branch)

\* ---------------------------------------------------------------------
\* erf.rs

\* inverse_erf, erf.rs lines 20-34
inverse_erf(x) == Do("inverse_erf", <<x>>)

\* line 27: let a = 0.147
ERF_A == Fin(0, <<2359, 262, 3670, 1204>>, -55)

\* lines 28-33, with sign and x after lines 21-25
InverseErfAt(sign, x) ==
  LET ln == log(FSub(One, FMul(x, x)))
      f1 == FDiv(Two, FMul(PI, ERF_A))
      f2 == FDiv(ln, Two)
      f3 == FAdd(f1, f2)
      f4 == FMul(FDiv(One, ERF_A), ln)
      s1 == FSqrt(FSub(FMul(f3, f3), f4))
      s2 == FSqrt(FAdd(FSub(FNeg(f1), f2), s1))
  IN  Last(<<ln, f1, f2, f3, f4, s1, s2, FMul(sign, s2)>>)

\* inverse_erf with the sign of the argument dropped
inverse_erf_NoSign(x) == InverseErfAt(One, FAbs(x))

inverse_erf_def(x) ==
  IF FLt(x, Zero(0)) THEN InverseErfAt(FNeg(One), FNeg(x)) ELSE InverseErfAt(One, x)

\* ---------------------------------------------------------------------
\* The evaluator: the operator named f applied to the arguments w.  The
\* arguments are values: they are computed before the operator is entered.
Do(f, w) ==
  CASE Len(w) = 0 -> w
    [] f = "RoundPack" -> RoundPack_def(w[1], w[2], w[3], w[4])
    [] f = "FAdd" -> FAdd_def(w[1], w[2])
    [] f = "FMul" -> FMul_def(w[1], w[2])
    [] f = "FDiv" -> FDiv_def(w[1], w[2])
    [] f = "BDivMod" -> BDivMod_def(w[1], w[2])
    [] f = "BDivStep" -> BDivStep_def(w[1], w[2], w[3])
    [] f = "FromInt" -> FromInt_def(w[1])
    [] f = "SeriesStep" -> SeriesStep_def(w[1], w[2], w[3], w[4])
    [] f = "Series" -> Series_def(w[1], w[2], w[3], w[4])
    [] f = "FSqrt" -> FSqrt_def(w[1])
    [] f = "FFloor" -> FFloor_def(w[1])
    [] f = "FTrunc" -> FTrunc_def(w[1])
    [] f = "Scalb" -> Scalb_def(w[1], w[2])
    [] f = "Ratio" -> Ratio_def(w[1], w[2])
    [] f = "exp" -> exp_def(w[1])
    [] f = "log" -> log_def(w[1])
    [] f = "AtanHalf" -> AtanHalf_def(w[1])
    [] f = "atan" -> atan_def(w[1])
    [] f = "TrigReduce" -> TrigReduce_def(w[1])
    [] f = "SinK" -> SinK_def(w[1])
    [] f = "CosK" -> CosK_def(w[1])
    [] f = "sin" -> sin_def(w[1])
    [] f = "cos" -> cos_def(w[1])
    [] f = "IsOddInteger" -> IsOddInteger_def(w[1])
    [] f = "pow" -> pow_def(w[1], w[2])
    [] f = "erf" -> erf_def(w[1])
    [] f = "GammaPos" -> GammaPos_def(w[1])
    [] f = "tgamma" -> tgamma_def(w[1])
    [] f = "PpfNum" -> PpfNum_def(w[1], w[2])
    [] f = "PpfDen" -> PpfDen_def(w[1], w[2])
    [] f = "Normal_pdf" -> Normal_pdf_def(w[1], w[2], w[3])
    [] f = "Normal_cdf" -> Normal_cdf_def(w[1], w[2], w[3])
    [] f = "PpfCentral" -> PpfCentral_def(w[1], w[2], w[3])
    [] f = "PpfTail" -> PpfTail_def(w[1], w[2], w[3], w[4])
    [] f = "Normal_ppf" -> Normal_ppf_def(w[1], w[2], w[3])
    [] f = "StudentsT_pdf" -> StudentsT_pdf_def(w[1], w[2])
    [] f = "CdfAsymptotic" -> CdfAsymptotic_def(w[1], w[2], w[3], w[4], w[5])
    [] f = "CdfRecur" -> CdfRecur_def(w[1], w[2], w[3], w[4])
    [] f = "CdfClose" -> CdfClose_def(w[1], w[2], w[3], w[4], w[5], w[6], w[7])
    [] f = "CdfTailBody" -> CdfTailBody_def(w[1], w[2], w[3], w[4], w[5], w[6])
    [] f = "CdfBranch" -> CdfBranch_def(w[1], w[2])
    [] f = "CdfEnter" -> CdfEnter_def(w[1], w[2])
    [] f = "PpfExpansion" -> PpfExpansion_def(w[1], w[2], w[3], w[4], w[5], w[6])
    [] f = "PpfDirect" -> PpfDirect_def(w[1], w[2], w[3])
    [] f = "PpfHill" -> PpfHill_def(w[1], w[2], w[3], w[4])
    [] f = "StudentsT_ppf" -> StudentsT_ppf_def(w[1], w[2])
    [] f = "LanczosTerm" -> LanczosTerm_def(w[1], w[2], w[3])
    [] f = "lanczos_gamma" -> lanczos_gamma_def(w[1])
    [] f = "reflection_formula" -> reflection_formula_def(w[1])
    [] f = "calculate" -> calculate_def(w[1])
    [] f = "inverse_erf" -> inverse_erf_def(w[1])
    [] f = "GammaEnter" -> GammaEnter_def(w[1])
    [] f = "GammaLeave" -> GammaLeave_def(w[1], w[2], w[3])

\* ---------------------------------------------------------------------
\* The calls.  One call of a public function is in progress at a time; the
\* loops of StudentsT::cdf advance one iteration per step.

VARIABLES
  pc,        \* "idle", "call" (the arguments are bound, the body has not run),
             \* "cos" (line 83), "tail" (line 96), "recur" (line 107),
             \* "lanczos" (gamma.rs line 86, lanczos_gamma is entered),
             \* "done" (the call has returned), "panic" (the call has panicked)
  fn,        \* the function called
  x,         \* its argument x
  p,         \* its argument p; for a mirrored cdf call, the value the caller
             \* kept of the call before
  mean,
  std_dev,
  n,         \* the degrees of freedom, as f64
  a,         \* the locals of StudentsT::cdf
  b,
  y,
  z,         \* also the argument z of lanczos_gamma
  j,
  n_u8,      \* n after `let mut n = n as u8`
  start,
  sign,
  ret,       \* the f64 returned
  opt,       \* the Option<f64> returned by gamma::calculate
  build,     \* "any" until the call depends on overflow checks, then "debug"
             \* (checks on, overflow panics) or "release" (checks off, wraps)
  chained,   \* how the caller made x: "no", "ppf" (the result of the ppf call
             \* just before) or "mirror" (minus the x of the cdf call just before)
  branch     \* the branch StudentsT::cdf has entered: "none", "asymptotic"
             \* (line 57), "cosine" (line 73) or "tail" (line 93); the way
             \* gamma::calculate has taken: "undefined" (line 65),
             \* "reflection" (line 67) or "direct" (line 69)

args == <<x, p, mean, std_dev, n>>

locals == <<a, b, y, z, j, n_u8, start, sign>>

vars == <<pc, fn, args, locals, ret, opt, build, chained, branch>>

\* The number of steps of the grid of probabilities, p = i / PGrid.
PGrid == 8

Huge == Fin(0, <<8794, 8029, 12685, 1337>>, 612)  \* 1e200

XSet ==
  {NaN, NEG_INFINITY, INFINITY, Zero(0), One,
   Fin(1, <<0, 0, 0, 1536>>, -51),  \* -3.0
   Fin(0, <<0, 0, 0, 1920>>, -49),  \* 15.0
   Huge}

MeanSet == {NaN, NEG_INFINITY, INFINITY, Zero(0), One}

StdDevSet == {NaN, FNeg(One), Zero(0), One, Two, INFINITY}

PSet == {NaN, FNeg(One), Two} \cup {Ratio(i, PGrid) : i \in 0..PGrid}

\* probabilities in the two tail regions of Normal::ppf, on either side
PTailSet ==
  {Fin(0, <<0, 0, 0, 1024>>, -56),              \* 1/16
   Fin(0, <<0, 0, 0, 1920>>, -53),              \* 15/16
   Fin(0, <<0, 0, 0, 1024>>, -92),              \* 2^-40
   Fin(0, <<8192, 16383, 16383, 2047>>, -53)}   \* 1 - 2^-40

NSet ==
  {NaN, FNeg(One), Zero(0), Half, One, Two,
   Fin(0, <<0, 0, 0, 1280>>, -51),  \* 2.5
   Fin(0, <<0, 0, 0, 1536>>, -51),  \* 3.0
   Fin(0, <<0, 0, 0, 1280>>, -50),  \* 5.0
   Fin(0, <<0, 0, 0, 1216>>, -48),  \* 19.0
   Fin(0, <<0, 0, 0, 1920>>, -48),  \* 30.0
   Fin(0, <<0, 0, 0, 1600>>, -45),  \* 200.0
   Fin(0, <<0, 0, 0, 1600>>, -44),  \* 400.0
   INFINITY}

GammaSet ==
  {NaN, NEG_INFINITY, INFINITY, Zero(0), Zero(1), FNeg(One), FNeg(Two), FNeg(Half),
   Fin(0, <<0, 0, 0, 1024>>, -54),  \* 0.25
   Fin(0, <<16383, 16383, 16383, 2047>>, -54),  \* 0.5 - 2^-54, the double before 0.5
   Half, One,
   Fin(0, <<0, 0, 0, 1280>>, -50)}  \* 5.0

Init ==
  /\ pc = "idle"
  /\ fn = "none"
  /\ x = Zero(0) /\ p = Zero(0) /\ mean = Zero(0) /\ std_dev = Zero(0)
  /\ n = Zero(0)
  /\ a = Zero(0) /\ b = Zero(0) /\ y = Zero(0) /\ z = Zero(0)
  /\ j = 0 /\ n_u8 = 0
  /\ start = Zero(0) /\ sign = Zero(0)
  /\ ret = Zero(0)
  /\ opt = None
  /\ build = "any"
  /\ chained = "no"
  /\ branch = "none"

\* A caller calls f: the arguments are bound and the body is about to run.
Call(f) ==
  /\ pc = "idle"
  /\ fn' = f
  /\ pc' = "call"
  /\ UNCHANGED <<locals, ret, opt, build, chained, branch>>

CallNormalPdf ==
  /\ Call("Normal::pdf")
  /\ \E x0 \in XSet, m0 \in MeanSet, s0 \in StdDevSet :
       x' = x0 /\ mean' = m0 /\ std_dev' = s0
  /\ UNCHANGED <<p, n>>

CallNormalCdf ==
  /\ Call("Normal::cdf")
  /\ \E x0 \in XSet, m0 \in MeanSet, s0 \in StdDevSet :
       x' = x0 /\ mean' = m0 /\ std_dev' = s0
  /\ UNCHANGED <<p, n>>

CallNormalPpf ==
  /\ Call("Normal::ppf")
  /\ \E p0 \in PSet \cup PTailSet, m0 \in MeanSet, s0 \in StdDevSet :
       p' = p0 /\ mean' = m0 /\ std_dev' = s0
  /\ UNCHANGED <<x, n>>

CallStudentsTPdf ==
  /\ Call("StudentsT::pdf")
  /\ \E x0 \in XSet, n0 \in NSet : x' = x0 /\ n' = n0
  /\ UNCHANGED <<p, mean, std_dev>>

CallStudentsTCdf ==
  /\ Call("StudentsT::cdf")
  /\ \E x0 \in XSet, n0 \in NSet : x' = x0 /\ n' = n0
  /\ UNCHANGED <<p, mean, std_dev>>

CallStudentsTPpf ==
  /\ Call("StudentsT::ppf")
  /\ \E p0 \in PSet, n0 \in NSet : p' = p0 /\ n' = n0
  /\ UNCHANGED <<x, mean, std_dev>>

\* arguments of inverse_erf: the ends and the middle of its domain, points
\* inside and outside it
ErfSet ==
  {NaN, NEG_INFINITY, INFINITY, Zero(0), Zero(1), One, FNeg(One), Half, FNeg(Half),
   Two, FNeg(Two)}

CallInverseErf ==
  /\ Call("inverse_erf")
  /\ \E x0 \in ErfSet : x' = x0
  /\ UNCHANGED <<p, mean, std_dev, n>>

CallGammaCalculate ==
  /\ Call("gamma::calculate")
  /\ \E x0 \in GammaSet : x' = x0
  /\ UNCHANGED <<p, mean, std_dev, n>>

\* Normal::cdf called on the result of the Normal::ppf call just returned,
\* with the same mean and std_dev.
ChainNormalCdf ==
  /\ pc = "done" /\ fn = "Normal::ppf" /\ ~IsNaN(ret)
  /\ x' = ret
  /\ fn' = "Normal::cdf"
  /\ pc' = "call"
  /\ chained' = "ppf"
  /\ UNCHANGED <<p, mean, std_dev, n, locals, ret, opt, build, branch>>

\* StudentsT::cdf called on the result of the StudentsT::ppf call just
\* returned, with the same n.
ChainStudentsTCdf ==
  /\ pc = "done" /\ fn = "StudentsT::ppf" /\ ~IsNaN(ret)
  /\ x' = ret
  /\ fn' = "StudentsT::cdf"
  /\ pc' = "call"
  /\ chained' = "ppf"
  /\ UNCHANGED <<p, mean, std_dev, n, locals, ret, opt, build, branch>>

\* StudentsT::cdf called on minus the x of the StudentsT::cdf call that just
\* returned a number, with the same n; the caller keeps the first result in p.
MirrorStudentsTCdf ==
  /\ pc = "done" /\ fn = "StudentsT::cdf" /\ chained = "no"
  /\ IsFinite(x) /\ ~IsNaN(ret)
  /\ p' = ret
  /\ x' = FNeg(x)
  /\ pc' = "call"
  /\ chained' = "mirror"
  /\ UNCHANGED <<fn, mean, std_dev, n, locals, ret, opt, build, branch>>

\* The body of f runs to its return of v.
Returns(f, v) ==
  /\ pc = "call" /\ fn = f
  /\ ret' = v
  /\ pc' = "done"
  /\ UNCHANGED <<fn, args, locals, opt, build, chained, branch>>

NormalPdf == Returns("Normal::pdf", Normal_pdf(x, mean, std_dev))

NormalCdf == Returns("Normal::cdf", Normal_cdf(x, mean, std_dev))

NormalPpf == Returns("Normal::ppf", Normal_ppf(p, mean, std_dev))

StudentsTPdf == Returns("StudentsT::pdf", StudentsT_pdf(x, n))

StudentsTPpf == Returns("StudentsT::ppf", StudentsT_ppf(p, n))

\* The locals, the position and the return value become those of f.
Become(f) ==
  /\ pc' = f.pc /\ ret' = f.ret
  /\ a' = f.a /\ b' = f.b /\ y' = f.y /\ z' = f.z
  /\ j' = f.j /\ n_u8' = f.n_u8
  /\ start' = f.start /\ sign' = f.sign
  /\ branch' = f.branch

\* StudentsT::cdf, lines 26-95
StudentsTCdf ==
  /\ pc = "call" /\ fn = "StudentsT::cdf"
  /\ Become(CdfEnter(x, n))
  /\ UNCHANGED <<fn, args, opt, build, chained>>

\* inverse_erf, erf.rs lines 20-34
InverseErf == Returns("inverse_erf", inverse_erf(x))

\* calculate, lines 62-70, up to the call of lanczos_gamma, which is made
\* at line 69 or, from reflection_formula, at line 82
GammaCalculate ==
  /\ pc = "call" /\ fn = "gamma::calculate"
  /\ LET f == GammaEnter(x)
     IN  /\ branch' = f.branch
         /\ z' = f.z
         /\ pc' = IF f.branch = "undefined" THEN "done" ELSE "lanczos"
  /\ opt' = None
  /\ UNCHANGED <<fn, args, a, b, y, j, n_u8, start, sign, ret, build, chained>>

\* lanczos_gamma(z), lines 86-96, and the return through its callers
LanczosGamma ==
  /\ pc = "lanczos" /\ fn = "gamma::calculate"
  /\ opt' = GammaLeave(x, z, branch)
  /\ pc' = "done"
  /\ UNCHANGED <<fn, args, locals, ret, build, chained, branch>>

\* CosLoopStep with the step n -= 1
CosLoopStep_By1 ==
  /\ pc = "cos" /\ n_u8 > 1
  /\ a' = CdfRecur(n_u8, a, b, y)
  /\ n_u8' = n_u8 - 1
  /\ UNCHANGED <<pc, fn, args, b, y, z, j, start, sign, ret, opt, build, chained, branch>>

\* lines 83-86: one pass of the loop of the cosine branch
CosLoopStep ==
  /\ pc = "cos" /\ n_u8 > 1
  /\ a' = CdfRecur(n_u8, a, b, y)
  /\ n_u8' = n_u8 - 2
  /\ UNCHANGED <<pc, fn, args, b, y, z, j, start, sign, ret, opt, build, chained, branch>>

\* lines 88-89: the loop is over; the closed form and the return
CosFinish ==
  /\ pc = "cos" /\ n_u8 <= 1
  /\ ret' = CdfClose(n_u8, a, b, y, z, start, sign)
  /\ pc' = "done"
  /\ UNCHANGED <<fn, args, locals, opt, build, chained, branch>>

\* The u8 arithmetic of one pass of the tail series overflows: j += 2 at
\* line 97 or n + j at line 100.  (j - 1 at line 99 underflows only when
\* j += 2 has wrapped to 0.)
TailOverflows == j + 2 > 255 \/ n_u8 + j + 2 > 255

\* lines 97-100: j, z, y and a after one pass whose new j is j1 and whose
\* body gives r = <<y, a>>
TailPass(j1, r) ==
  /\ j' = j1
  /\ z' = a
  /\ y' = r[1]
  /\ a' = r[2]

\* lines 96-101: one pass of the tail series, no u8 operation overflowing
TailStep ==
  /\ pc = "tail" /\ FNe(a, z) /\ ~TailOverflows
  /\ TailPass(j + 2, CdfTailBody(a, b, y, j + 2, j + 1, n_u8 + j + 2))
  /\ UNCHANGED <<pc, fn, args, b, n_u8, start, sign, ret, opt, build, chained, branch>>

\* lines 96-101 where a u8 operation overflows and overflow checks are off:
\* the operations wrap modulo 256
TailStepWrap ==
  /\ pc = "tail" /\ FNe(a, z) /\ TailOverflows
  /\ build # "debug"
  /\ LET j1 == (j + 2) % 256
     IN  TailPass(j1, CdfTailBody(a, b, y, j1, (j1 - 1) % 256, (n_u8 + j1) % 256))
  /\ build' = "release"
  /\ UNCHANGED <<pc, fn, args, b, n_u8, start, sign, ret, opt, chained, branch>>

\* lines 96-101 where a u8 operation overflows and overflow checks are on:
\* the thread panics
TailStepPanic ==
  /\ pc = "tail" /\ FNe(a, z) /\ TailOverflows
  /\ build # "release"
  /\ pc' = "panic"
  /\ build' = "debug"
  /\ UNCHANGED <<fn, args, locals, ret, opt, chained, branch>>

\* lines 102-104: the series has converged
TailExit ==
  /\ pc = "tail" /\ FEq(a, z)
  /\ z' = Zero(0)
  /\ y' = Zero(0)
  /\ a' = FNeg(a)
  /\ pc' = "recur"
  /\ UNCHANGED <<fn, args, b, j, n_u8, start, sign, ret, opt, build, chained, branch>>

\* lines 107-110: one pass of the recurrence after the tail series
RecurStep ==
  /\ pc = "recur" /\ n_u8 > 1
  /\ a' = CdfRecur(n_u8, a, b, y)
  /\ n_u8' = n_u8 - 2
  /\ UNCHANGED <<pc, fn, args, b, y, z, j, start, sign, ret, opt, build, chained, branch>>

\* lines 111-112: the closed form and the return
RecurFinish ==
  /\ pc = "recur" /\ n_u8 <= 1
  /\ ret' = CdfClose(n_u8, a, b, y, z, start, sign)
  /\ pc' = "done"
  /\ UNCHANGED <<fn, args, locals, opt, build, chained, branch>>

\* The caller has the result; the next call starts from a fresh frame.
Return ==
  /\ pc = "done"
  /\ pc' = "idle"
  /\ fn' = "none"
  /\ x' = Zero(0) /\ p' = Zero(0) /\ mean' = Zero(0) /\ std_dev' = Zero(0)
  /\ n' = Zero(0)
  /\ a' = Zero(0) /\ b' = Zero(0) /\ y' = Zero(0) /\ z' = Zero(0)
  /\ j' = 0 /\ n_u8' = 0
  /\ start' = Zero(0) /\ sign' = Zero(0)
  /\ ret' = Zero(0)
  /\ opt' = None
  /\ build' = "any"
  /\ chained' = "no"
  /\ branch' = "none"

Next ==
  \/ CallNormalPdf
  \/ CallNormalCdf
  \/ CallNormalPpf
  \/ CallStudentsTPdf
  \/ CallStudentsTCdf
  \/ CallStudentsTPpf
  \/ CallGammaCalculate
  \/ CallInverseErf
  \/ ChainNormalCdf
  \/ ChainStudentsTCdf
  \/ MirrorStudentsTCdf
  \/ NormalPdf
  \/ NormalCdf
  \/ NormalPpf
  \/ StudentsTPdf
  \/ StudentsTPpf
  \/ StudentsTCdf
  \/ GammaCalculate
  \/ LanczosGamma
  \/ InverseErf
  \/ CosLoopStep
  \/ CosFinish
  \/ TailStep
  \/ TailStepWrap
  \/ TailStepPanic
  \/ TailExit
  \/ RecurStep
  \/ RecurFinish
  \/ Return

Spec == Init /\ [][Next]_vars

(***************************************************************************)
(* The properties.                                                         *)
(***************************************************************************)

\* StudentsT::cdf is past its boundary returns (lines 29-43), or has
\* returned, with a finite x and a finite n that the guard of line 29 accepts.
CdfInRange ==
  fn = "StudentsT::cdf" /\ pc # "call" /\ IsFinite(x) /\ IsFinite(n) /\ FGe(n, One)

\* C11: in StudentsT::cdf with finite x and finite valid n, t = x * x, the
\* asymptotic branch is entered iff n is not whole, or n >= 20 and t < n, or
\* n > 200; otherwise the cosine branch iff n < 20 and t < 4; otherwise the
\* tail branch.  Exactly one is entered, and (n, t) decide which.
C11_BranchSelection ==
  CdfInRange =>
    LET t == FMul(x, x)
        asym == \/ ~IsInteger(n)
                \/ (FGe(n, FromInt(20)) /\ FLt(t, n))
                \/ FGt(n, FromInt(200))
        cosine == ~asym /\ FLt(n, FromInt(20)) /\ FLt(t, FromInt(4))
    IN  /\ branch = "asymptotic" <=> asym
        /\ branch = "cosine" <=> cosine
        /\ branch = "tail" <=> ~asym /\ ~cosine

\* C11: the tail branch has been entered with a whole n >= 20 and t >= n,
\* and its series has made a pass.
C11_Witness == CdfInRange /\ branch = "tail" /\ n_u8 >= 20 /\ j > 0

\* C12: when StudentsT::cdf converts n to u8 at line 70 (it has entered the
\* cosine or the tail branch), n is a whole number with 1 <= n <= 200 and
\* the u8 equals it; the tail series runs with that u8.
C12_LosslessConversion ==
  (fn = "StudentsT::cdf" /\ branch \in {"cosine", "tail"}) =>
    /\ IsInteger(n)
    /\ FGe(n, One) /\ FLe(n, FromInt(200))
    /\ FEq(FromInt(AsU8(n)), n)
    /\ (pc = "tail" => n_u8 = AsU8(n))

\* C12: the conversion has been made on n = 200.0 and the tail series runs
C12_Witness == fn = "StudentsT::cdf" /\ pc = "tail" /\ n_u8 = 200 /\ FEq(n, FromInt(200))

\* A pass of a recurrence `while n > 1 { ...; n -= 2; }` (lines 83-86 and
\* 107-110), by what it does to the counter.
RecurrencePass == pc \in {"cos", "recur"} /\ n_u8 > 1 /\ n_u8' = n_u8 - 2

\* A step of the tail series `while a != z { j += 2; ... }` (lines 96-101):
\* a pass, which moves j, or the way out of the loop.
TailRuns == pc = "tail" /\ pc' \in {"tail", "recur", "panic"} /\ j' \in 0..255

\* The code runs on: while the guard of a recurrence holds its body is run,
\* and the tail series is not left standing at its loop head.
FairSpec == Spec /\ WF_n_u8(RecurrencePass) /\ WF_<<pc, j>>(TailRuns)

\* StudentsT::cdf is in, or has returned from, its cosine or tail branch.
CdfInLoops == fn = "StudentsT::cdf" /\ branch \in {"cosine", "tail"}

\* The value the closed form gives when it is chosen by the parity of the
\* n the call was made with: atan-based for odd n, a / sqrt(b) for even n.
C13_ClosedForm ==
  LET a1 == IF AsU8(n) % 2 = 1
            THEN FMul(FAdd(atan(y), FDiv(a, b)), FDiv(Two, PI))
            ELSE FDiv(a, FSqrt(b))
  IN  FAdd(start, FDiv(FMul(sign, FSub(z, a1)), Two))

\* the u8 n stays a u8 of the parity of the original n; at the return it is
\* 0 or 1; the cosine branch with n = 1 starts from a = 0 and skips the loop
C13_State ==
  CdfInLoops =>
    /\ n_u8 \in 0..255
    /\ n_u8 % 2 = AsU8(n) % 2
    /\ (pc = "done" => n_u8 \in {0, 1})
    /\ (pc = "cos" /\ AsU8(n) = 1 => n_u8 = 1 /\ a = Zero(0))

\* a pass of a recurrence takes 2 from an n of at least 2, and the return
\* after a recurrence is the closed form of the parity of the original n
C13_Step ==
  /\ (pc \in {"cos", "recur"} /\ n_u8' # n_u8 => n_u8 >= 2 /\ n_u8' = n_u8 - 2)
  /\ (pc \in {"cos", "recur"} /\ pc' = "done" => ret' = C13_ClosedForm)

\* C13: in the cosine and the tail branch of StudentsT::cdf the recurrence
\* that takes 2 from the u8 n never takes it below 0, terminates, and ends
\* with n in {0, 1} of the parity of the original n; the atan-based closed
\* form is applied iff the original n is odd and a / sqrt(b) iff it is even;
\* for n = 1 the cosine branch skips the recurrence and starts from a = 0.
C13_Recurrence ==
  /\ []C13_State
  /\ [][C13_Step]_vars
  /\ (pc \in {"cos", "recur"} ~> (pc \in {"cos", "recur"} /\ n_u8 <= 1))

\* C13: the recurrence after the tail series has brought n = 19 down to 1
\* and the call has returned
C13_Witness == CdfInLoops /\ branch = "tail" /\ pc = "done" /\ AsU8(n) = 19 /\ n_u8 = 1

\* C14: the tail-series loop `while a != z` of StudentsT::cdf terminates for
\* every input that reaches it: once entered, the loop is left for the
\* recurrence that follows it.
C14_TailTerminates == (fn = "StudentsT::cdf" /\ pc = "tail") ~> (pc = "recur")

\* C15: in every pass of the tail series the u8 counter j and the divisor
\* n + j are the mathematical integers 2k and n + 2k: the pass about to run
\* has j + 2 <= 254 and n + j + 2 <= 255, so no u8 operation overflows.
C15_NoOverflow ==
  (fn = "StudentsT::cdf" /\ pc = "tail" /\ FNe(a, z)) =>
    (j + 2 <= 254 /\ n_u8 + j + 2 <= 255)

\* C16: for every x that is not NaN and every n StudentsT::cdf accepts (not
\* NaN, n >= 1) the value returned is a probability, 0 <= cdf(x, n) <= 1.
C16_Probability ==
  (fn = "StudentsT::cdf" /\ pc = "done" /\ ~IsNaN(x) /\ ~IsNaN(n) /\ FGe(n, One)) =>
    (FGe(ret, Zero(0)) /\ FLe(ret, One))

\* 2^-53, half the spacing of the doubles in [1, 2)
EpsHalf == Fin(0, <<0, 0, 0, 1024>>, -105)

\* both calls have returned a finite number: p = cdf(-x, n) and
\* ret = cdf(x, n) for a finite x and a finite n the function accepts
CdfMirrored ==
  /\ fn = "StudentsT::cdf" /\ pc = "done" /\ chained = "mirror"
  /\ IsFinite(x) /\ IsFinite(n) /\ FGe(n, One)
  /\ IsFinite(p) /\ IsFinite(ret)

PpfInRange ==
  /\ fn = "Normal::ppf"
  /\ FGt(p, Zero(0)) /\ FLt(p, One)
  /\ ~IsNaN(mean) /\ FGt(std_dev, Zero(0))

\* mean + std_dev * m * num / den with the tables a, b at the argument r
C18_Rational(m, a0, b0, r) ==
  FAdd(mean, FDiv(FMul(FMul(std_dev, m), PpfNum(a0, r)), PpfDen(b0, r)))

\* r = sqrt(-ln(min(p, 1 - p)))
C18_TailR == FSqrt(FNeg(log(IF FLt(p, FSub(One, p)) THEN p ELSE FSub(One, p))))

\* the value and the shifted argument the selection rule gives for p
C18_Selected ==
  LET q == FSub(p, Half)
      sgn == IF FLt(q, Zero(0)) THEN FNeg(One) ELSE One
      r == C18_TailR
      near == FSub(r, Fin(0, <<6554, 9830, 6553, 1638>>, -52))  \* r - 1.6
      far == FSub(r, FromInt(5))
  IN  IF FLt(FAbs(q), Fin(0, <<13107, 3276, 13107, 1740>>, -54))  \* 0.425
      THEN <<C18_Rational(q, A, B,
                          FSub(Fin(0, <<1311, 1966, 11141, 1479>>, -55), FMul(q, q))),
             Zero(0)>>
      ELSE IF FLt(r, FromInt(5))
      THEN <<C18_Rational(sgn, C, D, near), near>>
      ELSE <<C18_Rational(sgn, E2, F, far), far>>

\* C18: for p in (0, 1) and valid mean and std_dev, Normal::ppf returns the
\* central rational (tables A/B at 0.180625 - q*q, times q) iff |q| < 0.425
\* with q = p - 0.5; otherwise, with r = sqrt(-ln(min(p, 1 - p))), the
\* rational of C/D at r - 1.6 iff r < 5, else of E2/F at r - 5, times the
\* sign of q; and in the tail region the shifted argument is never negative.
C18_PpfSelection ==
  [][(PpfInRange /\ pc = "call" /\ pc' = "done") =>
       /\ ret' = C18_Selected[1]
       /\ FGe(C18_Selected[2], Zero(0))]_vars

\* C18: Normal::ppf has returned from the far tail on the upper side,
\* p = 1 - 2^-40
C18_Witness ==
  /\ PpfInRange /\ pc = "done"
  /\ p = Fin(0, <<8192, 16383, 16383, 2047>>, -53)
  /\ FGt(ret, FromInt(5))

\* lanczos_gamma has been entered from gamma::calculate
InLanczos == fn = "gamma::calculate" /\ pc = "lanczos"

\* C19 as stated: gamma::calculate evaluates the Lanczos series only on
\* arguments >= 0.5: on x itself when x >= 0.5, and on 1 - x, which is
\* > 0.5, through the reflection formula when x < 0.5 and x is not a pole.
C19_LanczosDomainStrict ==
  InLanczos =>
    /\ FGe(z, Half)
    /\ (branch = "direct" <=> FGe(x, Half))
    /\ (branch = "direct" => z = x)
    /\ (branch = "reflection" => z = FSub(One, x) /\ FGt(z, Half))

\* the argument of lanczos_gamma for an x that is not NaN
C19_Domain ==
  (InLanczos /\ ~IsNaN(x)) =>
    /\ FGe(z, Half)
    /\ (branch = "direct" <=> FGe(x, Half))
    /\ (branch = "direct" => z = x)
    /\ (branch = "reflection" <=> FLt(x, Half) /\ ~FEq(FTrunc(x), x))
    /\ (branch = "reflection" => z = FSub(One, x))

\* lanczos_gamma is entered from the call only, and left for the return only
C19_Depth ==
  /\ (fn' = "gamma::calculate" /\ pc' = "lanczos" /\ pc # pc') => pc = "call"
  /\ InLanczos => pc' \in {"lanczos", "done"}

\* C19 amended: for an x that is not NaN, gamma::calculate evaluates the
\* Lanczos series only on arguments >= 0.5: on x itself iff x >= 0.5, and on
\* 1 - x, which is >= 0.5 (it is 0.5 for the double before 0.5), through the
\* reflection formula iff x < 0.5 and x is not a whole number; lanczos_gamma
\* is entered once per call and the reflection formula never calls itself.
C19_LanczosDomain == []C19_Domain /\ [][C19_Depth]_vars

\* C19: the reflection formula hands lanczos_gamma exactly 0.5, for the
\* double before 0.5
C19_Witness == InLanczos /\ branch = "reflection" /\ FLt(x, Half) /\ z = Half

\* inverse_erf has returned
ErfDone == fn = "inverse_erf" /\ pc = "done"

\* C20: inverse_erf(1) = +infinity and inverse_erf(-1) = -infinity, the
\* -infinity of ln(1 - x*x) going through the formula to an infinity of the
\* sign of x and never to NaN; and inverse_erf(0) = 0.
C20_InverseErfEnds ==
  ErfDone =>
    /\ (x = One => ret = INFINITY)
    /\ (x = FNeg(One) => ret = NEG_INFINITY)
    /\ (IsZero(x) => IsZero(ret))

\* C20: inverse_erf(-1) has returned -infinity
C20_Witness == ErfDone /\ x = FNeg(One) /\ ret = NEG_INFINITY

\* C1: for every input each of Normal::pdf, cdf, ppf and StudentsT::pdf, cdf,
\* ppf returns a value and never panics; no step of StudentsT::cdf triggers
\* a runtime failure.
C1_NoPanic == pc # "panic"

\* a call of f has returned
Done(f) == fn = f /\ pc = "done"

\* C2: Normal::pdf and Normal::cdf return NaN whenever std_dev <= 0,
\* whatever x and mean are, and whenever any of x, mean, std_dev is NaN.
C2_NormalNaN ==
  (Done("Normal::pdf") \/ Done("Normal::cdf")) =>
    ((FLe(std_dev, Zero(0)) \/ IsNaN(x) \/ IsNaN(mean) \/ IsNaN(std_dev)) => IsNaN(ret))

\* C2: Normal::cdf has returned NaN for a negative std_dev at an infinite x
C2_Witness ==
  Done("Normal::cdf") /\ FLt(std_dev, Zero(0)) /\ IsInf(x) /\ ~IsNaN(mean) /\ IsNaN(ret)

\* the arguments of Normal::ppf fail its validity check, or p is NaN
PpfInvalid ==
  \/ FLt(p, Zero(0)) \/ FGt(p, One) \/ FLe(std_dev, Zero(0))
  \/ IsNaN(p) \/ IsNaN(mean) \/ IsNaN(std_dev)

\* C3: Normal::ppf returns NaN when p < 0, p > 1, std_dev <= 0 or any of p,
\* mean, std_dev is NaN; otherwise -infinity at p = 0 and +infinity at
\* p = 1: the validity check comes before the boundary values.
C3_PpfValidity ==
  Done("Normal::ppf") =>
    /\ PpfInvalid => IsNaN(ret)
    /\ (~PpfInvalid /\ IsZero(p)) => ret = NEG_INFINITY
    /\ (~PpfInvalid /\ FEq(p, One)) => ret = INFINITY

\* C3: Normal::ppf has returned NaN at p = 0 for a NaN mean
C3_Witness == Done("Normal::ppf") /\ IsZero(p) /\ IsNaN(mean) /\ IsNaN(ret)

C5_SameValidity ==
  (Done("StudentsT::pdf") \/ Done("StudentsT::cdf") \/ Done("StudentsT::ppf")) =>
    IF IsNaN(n) \/ FLe(n, Zero(0)) THEN IsNaN(ret)
    ELSE IF fn = "StudentsT::ppf" THEN (FLe(Zero(0), p) /\ FLe(p, One)) => ~IsNaN(ret)
    ELSE ~IsNaN(x) => ~IsNaN(ret)

\* C6: StudentsT::cdf returns NaN if x is NaN, n is NaN or n is invalid,
\* then 0 at x = -infinity, then 1 at x = +infinity; and for a valid n and
\* an x that is not NaN the result is never NaN.
C6_CdfBoundaries ==
  Done("StudentsT::cdf") =>
    IF IsNaN(x) \/ IsNaN(n) \/ FLt(n, One) THEN IsNaN(ret)
    ELSE IF x = NEG_INFINITY THEN IsZero(ret)
    ELSE IF x = INFINITY THEN ret = One
    ELSE ~IsNaN(ret)

\* the value the standard Normal operation gives for the call in progress
C7_Normal ==
  CASE fn = "StudentsT::pdf" -> Normal_pdf(x, Zero(0), One)
    [] fn = "StudentsT::cdf" -> Normal_cdf(x, Zero(0), One)
    [] fn = "StudentsT::ppf" -> Normal_ppf(p, Zero(0), One)

\* the call in progress is one C7 speaks of: n = +infinity, any x for pdf, an
\* x that is not NaN for cdf, a p in [0, 1] for ppf
C7_Case ==
  /\ pc = "call" /\ n = INFINITY
  /\ \/ fn = "StudentsT::pdf"
     \/ fn = "StudentsT::cdf" /\ ~IsNaN(x)
     \/ fn = "StudentsT::ppf" /\ FLe(Zero(0), p) /\ FLe(p, One)

\* C7: for n = +infinity StudentsT::pdf, cdf and ppf return exactly what
\* Normal::pdf, cdf and ppf return for mean 0 and std_dev 1, in one step from
\* the call, no branch of the finite-n code being entered.
C7_NormalLimit ==
  [][C7_Case => (pc' = "done" /\ ret' = C7_Normal /\ branch' = "none")]_vars

\* C7: StudentsT::cdf(1, +infinity) has returned, above one half
C7_Witness ==
  Done("StudentsT::cdf") /\ n = INFINITY /\ x = One /\ FGt(ret, Half) /\ FLt(ret, One)

\* C8: for every n StudentsT::ppf accepts (n >= 1, finite or +infinity),
\* StudentsT::ppf(0, n) = -infinity and StudentsT::ppf(1, n) = +infinity.
C8_PpfEnds ==
  (Done("StudentsT::ppf") /\ FGe(n, One)) =>
    /\ IsZero(p) => ret = NEG_INFINITY
    /\ FEq(p, One) => ret = INFINITY

\* C8: StudentsT::ppf(0, 2.5) has returned -infinity
C8_Witness ==
  /\ Done("StudentsT::ppf") /\ n = Fin(0, <<0, 0, 0, 1280>>, -51)
  /\ IsZero(p) /\ ret = NEG_INFINITY

\* C9 as stated: gamma::calculate(x) is None iff x is zero or a negative
\* whole number, and Some(value) for every other argument.
C9_NoneIffPole ==
  Done("gamma::calculate") =>
    (~opt.some <=> (IsZero(x) \/ (IsFinite(x) /\ x.s = 1 /\ FEq(FTrunc(x), x))))

\* C9 amended: gamma::calculate(x) is None iff x is zero, a negative whole
\* number or -infinity, that is iff x < 0.5 and trunc(x) = x.
C9_NoneIffRejected ==
  Done("gamma::calculate") =>
    /\ ~opt.some <=> (\/ IsZero(x)
                      \/ (IsFinite(x) /\ x.s = 1 /\ FEq(FTrunc(x), x))
                      \/ x = NEG_INFINITY)
    /\ ~opt.some <=> (FLt(x, Half) /\ FEq(FTrunc(x), x))

\* C9: gamma::calculate(-infinity) has returned None
C9_Witness == Done("gamma::calculate") /\ x = NEG_INFINITY /\ ~opt.some

\* 1e-6
RoundTripTol == Fin(0, <<11661, 727, 12154, 1073>>, -72)

\* C10: for every p in (0, 1), Normal::cdf(Normal::ppf(p, 0, 1), 0, 1) is
\* within 1e-6 of p, and for every valid n
\* StudentsT::cdf(StudentsT::ppf(p, n), n) is within 1e-6 of p.
C10_RoundTrip ==
  (/\ chained = "ppf" /\ pc = "done"
   /\ FGt(p, Zero(0)) /\ FLt(p, One)
   /\ \/ fn = "Normal::cdf" /\ IsZero(mean) /\ std_dev = One
      \/ fn = "StudentsT::cdf" /\ FGe(n, One))
  => FLe(FAbs(FSub(ret, p)), RoundTripTol)
====
